---- MODULE Spec2Model ----
(***************************************************************************)
(* Model of the persistence layer of the cafeteria menu application        *)
(* (src/src/database.py): the MenuItem entity and the DatabaseManager      *)
(* operations over the menu_items and categories tables; and of the form   *)
(* that calls it (src/src/ui_main.py): its navigation state, its fields    *)
(* and buttons, and the temporary file of print_item.                      *)
(*                                                                         *)
(* Prices are integers in thousandths of the currency unit, so the float   *)
(* tolerance 0.01 of MenuItem.equals is PriceTolerance = 10.               *)
(***************************************************************************)
EXTENDS Integers, Sequences, FiniteSets, TLC

VARIABLES
    menu_items,      \* the menu_items table: id -> row
    categories,      \* the categories table: id -> name
    auto_increment,  \* the next id the store assigns to an inserted row
    connection,      \* DatabaseManager.connection: "connected" or "disconnected"
    reachable,       \* whether the store accepts a new connection
    call,            \* the last public operation: arguments and outcome
    e2e,             \* how far the last calls follow the end-to-end scenario
    sessions,        \* the live sessions this DatabaseManager has opened
    \* MainWindow (src/src/ui_main.py)
    current_items,   \* the list the form navigates
    current_index,   \* the position of the displayed item, -1 for none
    id_input, name_input, description_input, price_input,  \* the text fields
    category_combo,  \* the category id selected, NoneId for "Select a category"
    search_input,    \* the text of the search box
    current_image, current_image_name,
    new_btn, save_btn, delete_btn, prev_btn, next_btn,     \* enabled or not
    tmp_files,       \* the temporary PDF files that exist
    shown,           \* the last handler of the form, and what it showed
    \* two DatabaseManager instances on one store
    pc,              \* manager -> its position in update_menu_item
    local,           \* manager -> the local variables of its call
    row_lock,        \* the managers holding the lock of a row: id -> manager
    committed        \* the managers that committed an UPDATE, in order

formVars ==
    <<current_items, current_index, id_input, name_input, description_input,
      price_input, category_combo, search_input, current_image,
      current_image_name, new_btn, save_btn, delete_btn, prev_btn, next_btn,
      tmp_files, shown>>

raceVars == <<pc, local, row_lock, committed>>

\* the state outside the one DatabaseManager and its store
outside == <<formVars, raceVars>>

vars ==
    <<menu_items, categories, auto_increment, connection, reachable, call, e2e,
      sessions, formVars, raceVars>>

----------------------------------------------------------------------------
(* Bounds of the model *)

MaxRows == 2     \* create is not offered once the table holds MaxRows rows
MaxId == 2       \* create is not offered once auto_increment exceeds MaxId

----------------------------------------------------------------------------
(* Python values *)

None == "<None>"          \* None in a bytes/str field
NoneId == -1              \* None in an int field
PriceTolerance == 10      \* 0.01 in thousandths

\* bool(x) of an Optional[bytes] / str value
Truthy(s) == s # None /\ s # ""

\* bool() of a name: a name is a str, held as the sequence of its characters
TruthyName(s) == s # << >>

\* bool(n) of an Optional[int] value
TruthyInt(n) == n # NoneId /\ n # 0

Abs(n) == IF n < 0 THEN -n ELSE n

(* A price p (in thousandths) is the Python float nearest to the decimal    *)
(* p/1000.  FloatErr(p) is the error of that float, float(p/1000) - p/1000, *)
(* and ToleranceErr the error of the literal 0.01, both in units of         *)
(* 2^-59 / 1000.  The subtraction of two of these floats is exact, so       *)
(*   abs(float(a) - float(b)) < 0.01                                        *)
(* is decided by the decimal difference unless that is exactly 0.01, and    *)
(* by the errors when it is.                                                 *)
FloatErr(p) ==
    CASE p = 0    -> 0
      [] p = 2500 -> 0
      [] p = 2505 -> -61440
      [] p = 2509 -> -59392
      [] p = 2510 -> -122880
      [] p = 2520 -> 10240
      [] p = 3000 -> 0

ToleranceErr == 120

\* abs(float(a) - float(b)) < 0.01
FloatWithinTolerance(a, b) ==
    LET d == Abs(a - b)
        sign == IF a >= b THEN 1 ELSE -1
    IN  IF d # PriceTolerance
        THEN d < PriceTolerance
        ELSE sign * (FloatErr(a) - FloatErr(b)) < ToleranceErr

----------------------------------------------------------------------------
(* MenuItem *)

MenuItem(id, name, description, price, category_id, image, image_name, category_name) ==
    [id |-> id, name |-> name, description |-> description, price |-> price,
     category_id |-> category_id, image |-> image, image_name |-> image_name,
     category_name |-> category_name]

equals(self, other) ==
    LET basic_equality ==
            /\ self.name = other.name
            /\ self.description = other.description
            /\ FloatWithinTolerance(self.price, other.price)
            /\ self.category_id = other.category_id
        images_match ==
            IF self.image = None /\ other.image = None THEN TRUE
            ELSE IF self.image # None /\ other.image # None
                 THEN self.image = other.image
                 ELSE FALSE
    IN  IF ~basic_equality THEN FALSE
        ELSE IF images_match /\ self.image # None
             THEN self.image_name = other.image_name
             ELSE images_match

\* is_complete without the check of the image
is_complete_NoImage(self) ==
    /\ TruthyName(self.name)
    /\ Truthy(self.description)
    /\ self.price > 0
    /\ TruthyInt(self.category_id)

is_complete(self) ==
    /\ TruthyName(self.name)
    /\ Truthy(self.description)
    /\ self.price > 0
    /\ TruthyInt(self.category_id)
    /\ Truthy(self.image)

----------------------------------------------------------------------------
(* The store: the statements the DatabaseManager executes *)

\* the six mutable columns of a menu_items row, taken from an item
RowOf(item) ==
    [name |-> item.name, description |-> item.description, price |-> item.price,
     category_id |-> item.category_id, image |-> item.image,
     image_name |-> item.image_name]

\* menu_items.category_id -> categories.id, checked by the store on a write
ForeignKeyOk(cats, category_id) == category_id \in DOMAIN cats

\* SELECT m.*, c.name AS category_name FROM menu_items m JOIN categories c
\* ON m.category_id = c.id WHERE m.id = item_id; fetchone(): <<>> or <<row>>
SelectJoinById(items, cats, item_id) ==
    IF item_id \in DOMAIN items /\ items[item_id].category_id \in DOMAIN cats
    THEN << [id |-> item_id, row |-> items[item_id],
             category_name |-> cats[items[item_id].category_id]] >>
    ELSE << >>

\* SqlInsert with the image_name column left out of the statement
SqlInsert_NoImageName(items, cats, next_id, item) ==
    IF ~ForeignKeyOk(cats, item.category_id)
    THEN [error |-> TRUE, menu_items |-> items, lastrowid |-> 0]
    ELSE [error |-> FALSE,
          menu_items |-> items @@ (next_id :> [RowOf(item) EXCEPT !.image_name = None]),
          lastrowid |-> next_id]

\* INSERT INTO menu_items (...) VALUES (...): [error, menu_items, lastrowid]
SqlInsert(items, cats, next_id, item) ==
    IF ~ForeignKeyOk(cats, item.category_id)
    THEN [error |-> TRUE, menu_items |-> items, lastrowid |-> 0]
    ELSE [error |-> FALSE, menu_items |-> items @@ (next_id :> RowOf(item)),
          lastrowid |-> next_id]

\* SqlUpdate that inserts the row when no row has the id (an upsert)
SqlUpdate_Upsert(items, cats, item) ==
    IF item.id \in DOMAIN items /\ items[item.id] = RowOf(item)
    THEN [error |-> FALSE, menu_items |-> items, rowcount |-> 0]
    ELSE IF ~ForeignKeyOk(cats, item.category_id)
         THEN [error |-> TRUE, menu_items |-> items, rowcount |-> 0]
         ELSE [error |-> FALSE,
               menu_items |-> [i \in DOMAIN items \cup {item.id} |->
                                  IF i = item.id THEN RowOf(item) ELSE items[i]],
               rowcount |-> 1]

\* SqlUpdate with the price column left out of the SET list
SqlUpdate_NoPrice(items, cats, item) ==
    LET row == IF item.id \in DOMAIN items
               THEN [RowOf(item) EXCEPT !.price = items[item.id].price]
               ELSE RowOf(item)
    IN  IF item.id \notin DOMAIN items \/ items[item.id] = row
        THEN [error |-> FALSE, menu_items |-> items, rowcount |-> 0]
        ELSE IF ~ForeignKeyOk(cats, item.category_id)
             THEN [error |-> TRUE, menu_items |-> items, rowcount |-> 0]
             ELSE [error |-> FALSE,
                   menu_items |-> [items EXCEPT ![item.id] = row],
                   rowcount |-> 1]

\* UPDATE menu_items SET ... WHERE id = item.id: [error, menu_items, rowcount];
\* rowcount counts the rows whose stored values changed
SqlUpdate(items, cats, item) ==
    IF item.id \notin DOMAIN items \/ items[item.id] = RowOf(item)
    THEN [error |-> FALSE, menu_items |-> items, rowcount |-> 0]
    ELSE IF ~ForeignKeyOk(cats, item.category_id)
         THEN [error |-> TRUE, menu_items |-> items, rowcount |-> 0]
         ELSE [error |-> FALSE,
               menu_items |-> [items EXCEPT ![item.id] = RowOf(item)],
               rowcount |-> 1]

\* SqlDelete that reports one affected row whether or not a row matched
SqlDelete_RowcountOne(items, item_id) ==
    IF item_id \in DOMAIN items
    THEN [menu_items |-> [i \in DOMAIN items \ {item_id} |-> items[i]],
          rowcount |-> 1]
    ELSE [menu_items |-> items, rowcount |-> 1]

\* DELETE FROM menu_items WHERE id = item_id: [menu_items, rowcount]
SqlDelete(items, item_id) ==
    IF item_id \in DOMAIN items
    THEN [menu_items |-> [i \in DOMAIN items \ {item_id} |-> items[i]],
          rowcount |-> 1]
    ELSE [menu_items |-> items, rowcount |-> 0]

----------------------------------------------------------------------------
(* DatabaseManager: the outcome of each operation on a given store *)

\* read_menu_item that does not copy the joined category_name
read_menu_item_NoCategoryName(items, cats, item_id) ==
    LET result == SelectJoinById(items, cats, item_id)
    IN  IF result # << >>
        THEN << MenuItem(result[1].id, result[1].row.name,
                         result[1].row.description, result[1].row.price,
                         result[1].row.category_id, result[1].row.image,
                         result[1].row.image_name, None) >>
        ELSE << >>

\* read_menu_item: <<>> for None, <<item>> for the hydrated row
read_menu_item(items, cats, item_id) ==
    LET result == SelectJoinById(items, cats, item_id)
    IN  IF result # << >>
        THEN << MenuItem(result[1].id, result[1].row.name,
                         result[1].row.description, result[1].row.price,
                         result[1].row.category_id, result[1].row.image,
                         result[1].row.image_name, result[1].category_name) >>
        ELSE << >>

\* has_changes that reports no change when the row does not exist
has_changes_AbsentUnchanged(items, cats, item_id, new_item) ==
    LET current_item == read_menu_item(items, cats, item_id)
    IN  IF current_item = << >>
        THEN [ret |-> FALSE, new_item |-> new_item]
        ELSE LET candidate ==
                     IF ~Truthy(new_item.image)
                     THEN [new_item EXCEPT !.image = current_item[1].image,
                                           !.image_name = current_item[1].image_name]
                     ELSE new_item
             IN  [ret |-> ~equals(current_item[1], candidate),
                  new_item |-> candidate]

\* has_changes that copies the stored image but not its image_name
has_changes_NoImageName(items, cats, item_id, new_item) ==
    LET current_item == read_menu_item(items, cats, item_id)
    IN  IF current_item = << >>
        THEN [ret |-> TRUE, new_item |-> new_item]
        ELSE LET candidate ==
                     IF ~Truthy(new_item.image)
                     THEN [new_item EXCEPT !.image = current_item[1].image]
                     ELSE new_item
             IN  [ret |-> ~equals(current_item[1], candidate),
                  new_item |-> candidate]

\* has_changes: the returned bool and new_item as the call leaves it
has_changes(items, cats, item_id, new_item) ==
    LET current_item == read_menu_item(items, cats, item_id)
    IN  IF current_item = << >>
        THEN [ret |-> TRUE, new_item |-> new_item]
        ELSE LET candidate ==
                     IF ~Truthy(new_item.image)
                     THEN [new_item EXCEPT !.image = current_item[1].image,
                                           !.image_name = current_item[1].image_name]
                     ELSE new_item
             IN  [ret |-> ~equals(current_item[1], candidate),
                  new_item |-> candidate]

\* connect(): a new handle replaces the old one when the store is reachable;
\* otherwise the handle stays as it is and a generic Exception is raised
connect(conn, up) ==
    IF up THEN [connection |-> "connected", raised |-> ""]
    ELSE [connection |-> conn, raised |-> "Exception"]

\* ensure_connection that leaves a dead handle as it is
ensure_connection_NoReconnect(conn, up) ==
    [connection |-> conn, connects |-> 0, raised |-> ""]

\* ensure_connection that opens a connection whatever the handle reports
ensure_connection_AlwaysConnects(conn, up) ==
    [connection |-> connect(conn, up).connection, connects |-> 1,
     raised |-> connect(conn, up).raised]

\* ensure_connection: connect() whenever the handle is not connected;
\* connects counts the calls of connect()
ensure_connection(conn, up) ==
    IF conn # "connected"
    THEN [connection |-> connect(conn, up).connection, connects |-> 1,
          raised |-> connect(conn, up).raised]
    ELSE [connection |-> conn, connects |-> 0, raised |-> ""]

\* the calls of ensure_connection in one call of an operation: its own, and
\* those of the operations it calls (update_menu_item calls has_changes,
\* has_changes calls read_menu_item)
EnsureCalls(op) ==
    CASE op = "update" -> 3
      [] op = "has_changes" -> 2
      [] OTHER -> 1

\* n calls of ensure_connection one after the other; the first that raises
\* ends the operation
RECURSIVE EnsureTimes(_, _, _)
EnsureTimes(conn, up, n) ==
    IF n = 0 THEN [connection |-> conn, connects |-> 0, raised |-> ""]
    ELSE LET this == ensure_connection(conn, up)
             rest == EnsureTimes(this.connection, up, n - 1)
         IN  IF this.raised # "" THEN this
             ELSE [rest EXCEPT !.connects = this.connects + rest.connects]

PublicOperations ==
    {"create", "read", "update", "delete", "list", "categories", "search",
     "has_changes"}

\* what a call does about the connection, for every operation, outcome of
\* the check of its arguments, state of the handle and of the store: nothing
\* when the check raises first, its calls of ensure_connection otherwise
SessionOf ==
    [op \in PublicOperations, validated \in BOOLEAN,
     conn \in {"connected", "disconnected"}, up \in BOOLEAN |->
        IF validated THEN EnsureTimes(conn, up, EnsureCalls(op))
        ELSE [connection |-> conn, connects |-> 0, raised |-> ""]]

Session(op, validated, conn, up) == SessionOf[op, validated, conn, up]

\* the statements of a call can run: the handle is connected
Live(session) == session.raised = "" /\ session.connection = "connected"

\* the sessions a call opens on the store: one when connect() ran and succeeded
Opened(session) ==
    IF session.connects > 0 /\ session.connection = "connected" THEN 1 ELSE 0

\* create_menu_item without the is_complete check
create_menu_item_NoValidation(items, cats, next_id, item) ==
    LET ins == SqlInsert(items, cats, next_id, item)
    IN  IF ins.error
        THEN [raised |-> "Exception", ret |-> 0, menu_items |-> items,
              stmts |-> <<"INSERT", "ROLLBACK">>]
        ELSE [raised |-> "", ret |-> ins.lastrowid,
              menu_items |-> ins.menu_items,
              stmts |-> <<"INSERT", "COMMIT">>]

\* create_menu_item: what is raised, the returned id, the store afterwards and
\* the statements sent to the store
create_menu_item(items, cats, next_id, item) ==
    IF ~is_complete(item)
    THEN [raised |-> "ValueError", ret |-> 0, menu_items |-> items,
          stmts |-> << >>]
    ELSE LET ins == SqlInsert(items, cats, next_id, item)
         IN  IF ins.error
             THEN [raised |-> "Exception", ret |-> 0, menu_items |-> items,
                   stmts |-> <<"INSERT", "ROLLBACK">>]
             ELSE [raised |-> "", ret |-> ins.lastrowid,
                   menu_items |-> ins.menu_items,
                   stmts |-> <<"INSERT", "COMMIT">>]

\* update_menu_item without the has_changes early return
update_menu_item_NoChangeCheck(items, cats, item) ==
    IF ~TruthyInt(item.id)
    THEN [raised |-> "ValueError", ret |-> FALSE, item |-> item,
          menu_items |-> items, stmts |-> << >>]
    ELSE LET hc == has_changes(items, cats, item.id, item)
             upd == SqlUpdate(items, cats, hc.new_item)
         IN  IF upd.error
             THEN [raised |-> "Exception", ret |-> FALSE,
                   item |-> hc.new_item, menu_items |-> items,
                   stmts |-> <<"SELECT", "UPDATE", "ROLLBACK">>]
             ELSE [raised |-> "", ret |-> upd.rowcount > 0,
                   item |-> hc.new_item, menu_items |-> upd.menu_items,
                   stmts |-> <<"SELECT", "UPDATE", "COMMIT">>]

\* update_menu_item that returns True after every commit
update_menu_item_ReturnTrue(items, cats, item) ==
    IF ~TruthyInt(item.id)
    THEN [raised |-> "ValueError", ret |-> FALSE, item |-> item,
          menu_items |-> items, stmts |-> << >>]
    ELSE LET hc == has_changes(items, cats, item.id, item)
         IN  IF ~hc.ret
             THEN [raised |-> "", ret |-> FALSE, item |-> hc.new_item,
                   menu_items |-> items, stmts |-> <<"SELECT">>]
             ELSE LET upd == SqlUpdate(items, cats, hc.new_item)
                  IN  IF upd.error
                      THEN [raised |-> "Exception", ret |-> FALSE,
                            item |-> hc.new_item, menu_items |-> items,
                            stmts |-> <<"SELECT", "UPDATE", "ROLLBACK">>]
                      ELSE [raised |-> "", ret |-> TRUE,
                            item |-> hc.new_item, menu_items |-> upd.menu_items,
                            stmts |-> <<"SELECT", "UPDATE", "COMMIT">>]

\* update_menu_item: what is raised, the returned bool, item as the call
\* leaves it, the store afterwards and the statements sent to the store
update_menu_item(items, cats, item) ==
    IF ~TruthyInt(item.id)
    THEN [raised |-> "ValueError", ret |-> FALSE, item |-> item,
          menu_items |-> items, stmts |-> << >>]
    ELSE LET hc == has_changes(items, cats, item.id, item)
         IN  IF ~hc.ret
             THEN [raised |-> "", ret |-> FALSE, item |-> hc.new_item,
                   menu_items |-> items, stmts |-> <<"SELECT">>]
             ELSE LET no_image == ~Truthy(hc.new_item.image)
                      current_item == read_menu_item(items, cats, item.id)
                      to_write ==
                          IF no_image /\ current_item # << >>
                          THEN [hc.new_item EXCEPT
                                    !.image = current_item[1].image,
                                    !.image_name = current_item[1].image_name]
                          ELSE hc.new_item
                      reads == IF no_image THEN <<"SELECT", "SELECT">>
                                           ELSE <<"SELECT">>
                      upd == SqlUpdate(items, cats, to_write)
                  IN  IF upd.error
                      THEN [raised |-> "Exception", ret |-> FALSE,
                            item |-> to_write, menu_items |-> items,
                            stmts |-> reads \o <<"UPDATE", "ROLLBACK">>]
                      ELSE [raised |-> "", ret |-> upd.rowcount > 0,
                            item |-> to_write, menu_items |-> upd.menu_items,
                            stmts |-> reads \o <<"UPDATE", "COMMIT">>]

\* delete_menu_item without the check of item_id
delete_menu_item_NoValidation(items, item_id) ==
    LET del == SqlDelete(items, item_id)
    IN  [raised |-> "", ret |-> del.rowcount > 0,
         menu_items |-> del.menu_items,
         stmts |-> <<"DELETE", "COMMIT">>]

\* delete_menu_item: what is raised, the returned bool, the store afterwards
\* and the statements sent to the store
delete_menu_item(items, item_id) ==
    IF ~TruthyInt(item_id)
    THEN [raised |-> "ValueError", ret |-> FALSE, menu_items |-> items,
          stmts |-> << >>]
    ELSE LET del == SqlDelete(items, item_id)
         IN  [raised |-> "", ret |-> del.rowcount > 0,
              menu_items |-> del.menu_items,
              stmts |-> <<"DELETE", "COMMIT">>]

----------------------------------------------------------------------------------------------------------------------------------------------
(* Inputs *)

IMG1 == "img-bytes-1"
IMG2 == "img-bytes-2"

\* the item of the end-to-end scenario, before the store assigns its id
TeaName == <<"T", "e", "a">>

\* the rows of the categories table
HotDrinks == <<"H", "o", "t", " ", "D", "r", "i", "n", "k", "s">>
ColdDrinks == <<"C", "o", "l", "d", " ", "D", "r", "i", "n", "k", "s">>
Categories == (1 :> HotDrinks) @@ (2 :> ColdDrinks)

Tea == MenuItem(NoneId, TeaName, "Hot tea", 2500, 1, IMG1, "tea.png", None)

\* the update of the end-to-end scenario: price 3.0, image absent
TeaUpdate == [Tea EXCEPT !.price = 3000, !.image = None, !.image_name = None]

\* items passed to update_menu_item: Tea, Tea with one field changed, and the
\* scenario's update
UpdateData ==
    {Tea, TeaUpdate}
    \cup {[Tea EXCEPT !.price = p] : p \in {2505, 3000}}
    \cup {[Tea EXCEPT !.category_id = c] : c \in {0, 2, 9}}
    \cup {[Tea EXCEPT !.image = i] : i \in {None, IMG2}}
    \cup {[Tea EXCEPT !.image_name = n] : n \in {None}}

\* items passed to create_menu_item: the same, and Tea with an empty text
\* field, a zero price or empty image bytes
CreateData ==
    UpdateData
    \cup {[Tea EXCEPT !.name = << >>], [Tea EXCEPT !.description = ""],
          [Tea EXCEPT !.price = 0], [Tea EXCEPT !.image = ""]}

\* ids a caller passes: None, 0 and every id the store can assign
IdArgs == {NoneId} \cup (0 .. MaxId)

\* placeholder for the item of a call that takes none
NoItem == MenuItem(NoneId, << >>, "", 0, NoneId, None, None, None)

\* call before the first call; the fields of a call:
\*   op, item, id      the operation and its arguments as passed
\*   raised            "" or the exception raised
\*   ret_bool, ret_id, ret_item   the returned value (ret_item: <<>> is None)
\*   item_after        the item argument as the call leaves it
\*   stmts             the statements sent to the store, in order
\*   before            menu_items before the call
\*   chain, first      how the call continues the call before it (see Chain*)
\*   fault             what happened to the call's mutating statement
NoCall ==
    [op |-> "none", item |-> NoItem, id |-> NoneId, raised |-> "",
     ret_bool |-> FALSE, ret_id |-> 0, ret_item |-> << >>,
     item_after |-> NoItem, stmts |-> << >>, before |-> << >>,
     chain |-> "", first |-> NoItem, term |-> << >>, ret_list |-> << >>,
     connects |-> 0, conn_before |-> "connected", fault |-> "none"]

\* a read of the id that the call just before it created or deleted
ChainOfRead(last, item_id) ==
    IF last.op = "create" /\ last.raised = "" /\ last.ret_id = item_id
    THEN "created"
    ELSE IF last.op = "delete" /\ last.raised = "" /\ last.ret_bool
            /\ last.id = item_id
         THEN "deleted"
         ELSE ""

\* an update with the data of the update just before it: the same values, or
\* the same object as that call left it
ChainOfUpdate(last, item) ==
    IF last.op = "update" /\ item \in {last.item, last.item_after}
    THEN IF last.raised # "" THEN "repeat_raised"
         ELSE IF last.ret_bool THEN "repeat_true" ELSE "repeat_false"
    ELSE ""

\* progress through: create(Tea) -> id; update(id, price 3.0, no image);
\* delete(id); read(id), each call directly after the one before
ScenarioStep(step, last, op, item, item_id) ==
    IF op = "create" /\ item = Tea THEN 1
    ELSE IF step = 1 /\ last.raised = "" /\ op = "update"
            /\ item = [TeaUpdate EXCEPT !.id = last.ret_id] THEN 2
    ELSE IF step = 2 /\ op = "delete" /\ item_id = last.id THEN 3
    ELSE IF step = 3 /\ op = "read" /\ item_id = last.id THEN 4
    ELSE 0

\* what the last handler of the form did: the handler, the text it was
\* given, the message boxes it showed, in order, and the temporary file it
\* made
NoShown == [handler |-> "none", text |-> << >>, dialogs |-> << >>, pdf_path |-> 0]

\* price_input when its text is not a number (it is empty)
NoPrice == -1

\* MainWindow before its data is loaded: its widgets as setup_ui builds them
NoForm ==
    /\ current_items = << >>
    /\ current_index = -1
    /\ id_input = NoneId
    /\ name_input = << >>
    /\ description_input = ""
    /\ price_input = NoPrice
    /\ category_combo = NoneId
    /\ search_input = << >>
    /\ current_image = None
    /\ current_image_name = None
    /\ new_btn = TRUE
    /\ save_btn = TRUE
    /\ delete_btn = TRUE
    /\ prev_btn = TRUE
    /\ next_btn = TRUE
    /\ tmp_files = {}
    /\ shown = NoShown

\* the two DatabaseManager instances of the concurrent updates
Managers == {"m1", "m2"}

\* the local variables of a manager that is not in a call:
\*   item          the item argument, as the call has left it so far
\*   in_transaction, snapshot   the rows its open transaction reads
\*   seen          the rows its change detection read
\*   pending, rowcount   the row its UPDATE wrote, until it is committed
\*   raised, ret   the outcome of the call
\*   calls         the calls of update_menu_item it has made
NoLocal ==
    [item |-> NoItem, in_transaction |-> FALSE, snapshot |-> << >>,
     seen |-> << >>, pending |-> << >>, rowcount |-> 0, raised |-> "",
     ret |-> FALSE, calls |-> 0]

\* no manager is in a call
NoRace ==
    /\ pc = [m \in Managers |-> "idle"]
    /\ local = [m \in Managers |-> NoLocal]
    /\ row_lock = << >>
    /\ committed = << >>

----------------------------------------------------------------------------
(* State machine *)

Init ==
    /\ menu_items = << >>
    /\ categories = Categories
    /\ auto_increment = 1
    /\ connection = "connected"
    /\ reachable = TRUE
    /\ sessions = 1
    /\ NoForm
    /\ NoRace
    /\ call = NoCall
    /\ e2e = 0

\* a caller invokes create_menu_item(data)
CreateMenuItem(data) ==
    \E out \in {create_menu_item(menu_items, categories, auto_increment, data)} :
    \E session \in {Session("create", out.raised # "ValueError",
                            connection, reachable)} :
    \E done \in {out.raised = "ValueError" \/ Live(session)} :
        /\ auto_increment <= MaxId
        /\ Cardinality(DOMAIN menu_items) < MaxRows
        /\ menu_items' = IF done THEN out.menu_items ELSE menu_items
        /\ auto_increment' = IF done /\ out.raised = "" THEN auto_increment + 1
                                                         ELSE auto_increment
        /\ connection' = session.connection
        /\ sessions' = sessions + Opened(session)
        /\ call' = [NoCall EXCEPT
                        !.op = "create", !.item = data, !.id = data.id,
                        !.raised = IF done THEN out.raised ELSE "Exception",
                        !.ret_id = IF done THEN out.ret ELSE 0,
                        !.item_after = data,
                        !.stmts = IF done THEN out.stmts ELSE << >>,
                        !.before = menu_items,
                        !.connects = session.connects,
                        !.conn_before = connection]
        /\ e2e' = ScenarioStep(e2e, call, "create", data, data.id)
        /\ UNCHANGED <<categories, reachable>>
        /\ UNCHANGED outside

CreateMenuItemCall == \E data \in CreateData : CreateMenuItem(data)

\* a caller invokes read_menu_item(item_id)
ReadMenuItem(item_id) ==
    \E session \in {Session("read", TRUE, connection, reachable)} :
    \E chain \in {ChainOfRead(call, item_id)} :
        /\ connection' = session.connection
        /\ sessions' = sessions + Opened(session)
        /\ call' = [NoCall EXCEPT
                        !.op = "read", !.id = item_id,
                        !.raised = IF Live(session) THEN "" ELSE "Exception",
                        !.ret_item =
                            IF Live(session)
                            THEN read_menu_item(menu_items, categories, item_id)
                            ELSE << >>,
                        !.stmts = IF Live(session) THEN <<"SELECT">> ELSE << >>,
                        !.before = menu_items,
                        !.chain = chain,
                        !.first = IF chain = "created"
                                  THEN call.item ELSE NoItem,
                        !.connects = session.connects,
                        !.conn_before = connection]
        /\ e2e' = ScenarioStep(e2e, call, "read", NoItem, item_id)
        /\ UNCHANGED <<menu_items, categories, auto_increment, reachable>>
        /\ UNCHANGED outside

ReadMenuItemCall == \E item_id \in IdArgs : ReadMenuItem(item_id)

\* a caller invokes update_menu_item(data) with data.id = item_id
UpdateMenuItem(data, item_id) ==
    \E item \in {[data EXCEPT !.id = item_id]} :
    \E out \in {update_menu_item(menu_items, categories, item)} :
    \E session \in {Session("update", out.raised # "ValueError",
                            connection, reachable)} :
    \E done \in {out.raised = "ValueError" \/ Live(session)} :
        /\ menu_items' = IF done THEN out.menu_items ELSE menu_items
        /\ connection' = session.connection
        /\ sessions' = sessions + Opened(session)
        /\ call' = [NoCall EXCEPT
                        !.op = "update", !.item = item, !.id = item_id,
                        !.raised = IF done THEN out.raised ELSE "Exception",
                        !.ret_bool = IF done THEN out.ret ELSE FALSE,
                        !.item_after = IF done THEN out.item ELSE item,
                        !.stmts = IF done THEN out.stmts ELSE << >>,
                        !.before = menu_items,
                        !.chain = ChainOfUpdate(call, item),
                        !.connects = session.connects,
                        !.conn_before = connection]
        /\ e2e' = ScenarioStep(e2e, call, "update", item, item_id)
        /\ UNCHANGED <<categories, auto_increment, reachable>>
        /\ UNCHANGED outside

UpdateMenuItemCall ==
    \E data \in UpdateData, item_id \in IdArgs : UpdateMenuItem(data, item_id)

\* a caller invokes delete_menu_item(item_id)
DeleteMenuItem(item_id) ==
    \E out \in {delete_menu_item(menu_items, item_id)} :
    \E session \in {Session("delete", out.raised # "ValueError",
                            connection, reachable)} :
    \E done \in {out.raised = "ValueError" \/ Live(session)} :
        /\ menu_items' = IF done THEN out.menu_items ELSE menu_items
        /\ connection' = session.connection
        /\ sessions' = sessions + Opened(session)
        /\ call' = [NoCall EXCEPT
                        !.op = "delete", !.id = item_id,
                        !.raised = IF done THEN out.raised ELSE "Exception",
                        !.ret_bool = IF done THEN out.ret ELSE FALSE,
                        !.stmts = IF done THEN out.stmts ELSE << >>,
                        !.before = menu_items,
                        !.connects = session.connects,
                        !.conn_before = connection]
        /\ e2e' = ScenarioStep(e2e, call, "delete", NoItem, item_id)
        /\ UNCHANGED <<categories, auto_increment, reachable>>
        /\ UNCHANGED outside

DeleteMenuItemCall == \E item_id \in IdArgs : DeleteMenuItem(item_id)

Next ==
    \/ CreateMenuItemCall
    \/ ReadMenuItemCall
    \/ UpdateMenuItemCall
    \/ DeleteMenuItemCall

Spec == Init /\ [][Next]_vars

----------------------------------------------------------------------------
(* Properties *)

\* the stored row of an id as read_menu_item hydrates it, for a store `items`
Stored(items, item_id) == read_menu_item(items, categories, item_id)[1]

\* the columns of two stores agree on every id but `item_id`
SameExcept(a, b, item_id) ==
    /\ DOMAIN a \ {item_id} = DOMAIN b \ {item_id}
    /\ \A i \in DOMAIN a \ {item_id} : a[i] = b[i]

\* C1: a complete item whose category exists is created with an id, and a
\* read of the returned id directly after the create yields an item that
\* equals() the created one, has that id and the category's name
C1_RoundTrip ==
    /\ (call.op = "create" /\ is_complete(call.item)
            /\ call.item.category_id \in DOMAIN categories)
        => (call.raised = "" /\ call.ret_id \in DOMAIN menu_items)
    /\ (call.op = "read" /\ call.chain = "created")
        => /\ call.ret_item # << >>
           /\ equals(call.ret_item[1], call.first)
           /\ call.ret_item[1].id = call.id
           /\ call.ret_item[1].category_name = categories[call.first.category_id]

\* a read directly after the create of Tea in category 1
C1_Witness ==
    /\ call.op = "read" /\ call.chain = "created"
    /\ call.first = Tea
    /\ call.ret_item # << >>
    /\ call.ret_item[1].category_name = HotDrinks

\* C2: an update of a row that has an image, with an item whose image is
\* None, leaves the row's image and image_name as they were, whatever the
\* other fields are and whether the call returns or raises
C2_ImageCarryForward ==
    (/\ call.op = "update"
     /\ call.id \in DOMAIN call.before
     /\ call.before[call.id].image # None
     /\ call.item.image = None)
    => /\ call.id \in DOMAIN menu_items
       /\ menu_items[call.id].image = call.before[call.id].image
       /\ menu_items[call.id].image_name = call.before[call.id].image_name

\* an update without image and with another image_name and price than the
\* stored ones, which changed the row
C2_Witness ==
    /\ call.op = "update"
    /\ call.id \in DOMAIN call.before
    /\ call.item.image = None
    /\ call.before[call.id].image = IMG2
    /\ call.before[call.id].image_name # call.item.image_name
    /\ call.ret_bool
    /\ menu_items[call.id].price # call.before[call.id].price

\* C3: create_menu_item of an incomplete item raises ValueError, sends no
\* statement to the store and leaves the store as it was
C3_CreateIncomplete ==
    (call.op = "create" /\ ~is_complete(call.item))
    => /\ call.raised = "ValueError"
       /\ call.stmts = << >>
       /\ menu_items = call.before

\* a create of an item without image on a store that already holds a row
C3_Witness ==
    /\ call.op = "create"
    /\ call.item.image = None
    /\ call.raised = "ValueError"
    /\ call.before # << >>

\* the incoming item of an update after image carry-forward from `current`
CarriedForward(item, current) ==
    IF ~Truthy(item.image)
    THEN [item EXCEPT !.image = current.image, !.image_name = current.image_name]
    ELSE item

\* C4: when the stored row equals() the incoming item after image
\* carry-forward, update_menu_item returns False, sends neither UPDATE nor
\* COMMIT and leaves the store as it was
C4_NoOpUpdate ==
    (/\ call.op = "update"
     /\ call.id \in DOMAIN call.before
     /\ equals(Stored(call.before, call.id),
               CarriedForward(call.item, Stored(call.before, call.id))))
    => /\ call.raised = ""
       /\ ~call.ret_bool
       /\ \A k \in 1 .. Len(call.stmts) : call.stmts[k] \notin {"UPDATE", "COMMIT"}
       /\ menu_items = call.before

\* a no-op update whose price differs from the stored one within the tolerance
C4_Witness ==
    /\ call.op = "update"
    /\ call.id \in DOMAIN call.before
    /\ call.item.price # call.before[call.id].price
    /\ ~call.ret_bool
    /\ call.raised = ""
    /\ call.stmts = <<"SELECT">>

C6_UpdateResult ==
    /\ (call.op = "update" /\ call.raised = "")
        => /\ call.ret_bool <=> menu_items # call.before
           /\ call.ret_bool => call.id \in DOMAIN call.before
           /\ SameExcept(call.before, menu_items, call.id)
           /\ DOMAIN menu_items = DOMAIN call.before
    /\ (call.op = "update" /\ TruthyInt(call.id)
            /\ call.id \notin DOMAIN call.before)
        => /\ call.raised = ""
           /\ ~call.ret_bool
           /\ menu_items = call.before

\* an update of an id that matches no row while another row is stored
C6_Witness ==
    /\ call.op = "update"
    /\ TruthyInt(call.id)
    /\ call.id \notin DOMAIN call.before
    /\ call.before # << >>
    /\ call.stmts = <<"SELECT", "UPDATE", "COMMIT">>
    /\ ~call.ret_bool

\* C7: update_menu_item with a falsy item.id and delete_menu_item with a
\* falsy id raise ValueError, send no statement and leave the store as it was
C7_FalsyId ==
    (call.op \in {"update", "delete"} /\ ~TruthyInt(call.id))
    => /\ call.raised = "ValueError"
       /\ call.stmts = << >>
       /\ menu_items = call.before

\* a delete with id 0 on a store that holds a row
C7_Witness ==
    /\ call.op = "delete"
    /\ call.id = 0
    /\ call.raised = "ValueError"
    /\ call.before # << >>

\* C8: delete_menu_item returns True iff a row with the id existed, and then
\* exactly that row is gone; for an id that matches no row it returns False
\* and the table is as it was
C8_DeleteResult ==
    (call.op = "delete" /\ TruthyInt(call.id))
    => /\ call.raised = ""
       /\ call.ret_bool <=> call.id \in DOMAIN call.before
       /\ call.id \notin DOMAIN menu_items
       /\ SameExcept(call.before, menu_items, call.id)
       /\ call.id \notin DOMAIN call.before
            => /\ menu_items = call.before
               /\ Cardinality(DOMAIN menu_items) = Cardinality(DOMAIN call.before)

\* a delete of an id that matches no row while a row is stored
C8_Witness ==
    /\ call.op = "delete"
    /\ TruthyInt(call.id)
    /\ call.id \notin DOMAIN call.before
    /\ call.before # << >>
    /\ ~call.ret_bool

\* C9: read_menu_item never raises; it returns the row of the id with the
\* name of its category when the row exists, and None when it does not, in
\* particular directly after a successful delete of the id
C9_ReadResult ==
    (call.op = "read")
    => /\ call.raised = ""
       /\ call.id \in DOMAIN menu_items
            => /\ call.ret_item # << >>
               /\ call.ret_item[1].id = call.id
               /\ RowOf(call.ret_item[1]) = menu_items[call.id]
               /\ call.ret_item[1].category_name # None
               /\ call.ret_item[1].category_name
                    = categories[menu_items[call.id].category_id]
       /\ call.id \notin DOMAIN menu_items => call.ret_item = << >>
       /\ call.chain = "deleted" => call.ret_item = << >>

\* a read of an id directly after its delete, while another row is stored
C9_Witness ==
    /\ call.op = "read"
    /\ call.chain = "deleted"
    /\ call.ret_item = << >>
    /\ menu_items # << >>

\* C10: in the end-to-end scenario the create returns an id; the update
\* returns True and the row then has price 3.0 with the image and image_name
\* of the create; the delete returns True; the read returns None
C10_EndToEnd ==
    /\ e2e = 1 => /\ call.raised = ""
                  /\ call.ret_id \in Nat
                  /\ call.ret_id \in DOMAIN menu_items
    /\ e2e = 2 => /\ call.raised = ""
                  /\ call.ret_bool
                  /\ call.id \in DOMAIN menu_items
                  /\ menu_items[call.id].price = 3000
                  /\ menu_items[call.id].image = Tea.image
                  /\ menu_items[call.id].image_name = Tea.image_name
    /\ e2e = 3 => /\ call.raised = ""
                  /\ call.ret_bool
    /\ e2e = 4 => /\ call.raised = ""
                  /\ call.ret_item = << >>

\* the scenario has run to its last step
C10_Witness ==
    /\ e2e = 4
    /\ call.op = "read"
    /\ call.ret_item = << >>

-----------------------------------------------------------------------------
(* MenuItem.equals and MenuItem.is_complete as functions of their arguments *)

\* the items equals is applied to, two at a time
EqualsItems ==
    { MenuItem(NoneId, n, d, p, c, i, f, None) :
        n \in {TeaName, <<"C", "h", "a", "i">>}, d \in {"Hot tea", "Iced"},
        p \in {2500, 2509, 2510, 2520}, c \in {1, 2},
        i \in {None, IMG1, IMG2}, f \in {None, "tea.png", "new.png"} }

\* the items is_complete is applied to
CompleteItems ==
    { MenuItem(NoneId, n, d, p, c, i, f, None) :
        n \in {<< >>, TeaName}, d \in {"", "Hot tea"},
        p \in {-1000, 0, 2500}, c \in {NoneId, 0, 1},
        i \in {None, "", IMG1}, f \in {None, "tea.png"} }

InitEquals ==
    /\ menu_items = << >>
    /\ categories = Categories
    /\ auto_increment = 1
    /\ connection = "connected"
    /\ reachable = TRUE
    /\ sessions = 1
    /\ NoForm
    /\ NoRace
    /\ e2e = 0
    /\ \E self \in EqualsItems, other \in EqualsItems :
          call = [NoCall EXCEPT !.op = "args", !.item = self, !.first = other]

\* self.equals(other)
EqualsCall ==
    /\ call.op = "args"
    /\ call' = [call EXCEPT !.op = "equals",
                            !.ret_bool = equals(call.item, call.first)]
    /\ UNCHANGED <<menu_items, categories, auto_increment, connection, sessions,
                   reachable, e2e>>
    /\ UNCHANGED outside

SpecEquals == InitEquals /\ [][EqualsCall]_vars

InitComplete ==
    /\ menu_items = << >>
    /\ categories = Categories
    /\ auto_increment = 1
    /\ connection = "connected"
    /\ reachable = TRUE
    /\ sessions = 1
    /\ NoForm
    /\ NoRace
    /\ e2e = 0
    /\ \E self \in CompleteItems :
          call = [NoCall EXCEPT !.op = "args", !.item = self]

\* self.is_complete()
IsCompleteCall ==
    /\ call.op = "args"
    /\ call' = [call EXCEPT !.op = "is_complete",
                            !.ret_bool = is_complete(call.item)]
    /\ UNCHANGED <<menu_items, categories, auto_increment, connection, sessions,
                   reachable, e2e>>
    /\ UNCHANGED outside

SpecComplete == InitComplete /\ [][IsCompleteCall]_vars

\* the decimal prices of the two arguments differ by d thousandths
PriceDiff == Abs(call.item.price - call.first.price)

\* C15: for two items that are otherwise identical, equals returns True when
\* the prices differ by at most 0.009 and False when they differ by 0.01 or
\* more
C15_AsStated ==
    (/\ call.op = "equals"
     /\ [call.item EXCEPT !.price = 0] = [call.first EXCEPT !.price = 0])
    => /\ PriceDiff <= 9 => call.ret_bool
       /\ PriceDiff >= PriceTolerance => ~call.ret_bool

\* C16: equals returns True exactly when name, description and category_id
\* are identical, the prices differ by less than 0.01, and the images are
\* both absent or both present with identical bytes and identical image_name
C16_AsStated ==
    call.op = "equals"
    => (call.ret_bool <=>
          /\ call.item.name = call.first.name
          /\ call.item.description = call.first.description
          /\ call.item.category_id = call.first.category_id
          /\ PriceDiff < PriceTolerance
          /\ \/ call.item.image = None /\ call.first.image = None
             \/ /\ call.item.image # None
                /\ call.first.image # None
                /\ call.item.image = call.first.image
                /\ call.item.image_name = call.first.image_name)

\* C17: is_complete returns True exactly when name and description are
\* non-empty, price is greater than 0, category_id is set and non-zero, and
\* the image bytes are present and non-empty
C17_IsComplete ==
    call.op = "is_complete"
    => (call.ret_bool <=>
          /\ call.item.name # << >>
          /\ call.item.description \notin {None, ""}
          /\ call.item.price > 0
          /\ call.item.category_id \notin {NoneId, 0}
          /\ call.item.image \notin {None, ""})

\* is_complete has refused an item whose only defect is an empty image
C17_Witness ==
    /\ call.op = "is_complete"
    /\ ~call.ret_bool
    /\ call.item.image = ""
    /\ call.item.name = TeaName
    /\ call.item.description = "Hot tea"
    /\ call.item.price = 2500
    /\ call.item.category_id = 1

-----------------------------------------------------------------------------
(* The stored rows *)

\* C18: in every state reachable through create_menu_item, update_menu_item
\* and delete_menu_item, each row of menu_items has image and image_name
\* either both null or both set
C18_AsStated ==
    \A id \in DOMAIN menu_items :
        (menu_items[id].image = None) <=> (menu_items[id].image_name = None)

-----------------------------------------------------------------------------
(* Text: a str is a sequence of one-character strings in the search model *)

LowerCase == <<"a", "b", "c", "d", "e", "f", "g", "h", "i", "j", "k", "l", "m",
               "n", "o", "p", "q", "r", "s", "t", "u", "v", "w", "x", "y", "z">>
UpperCase == <<"A", "B", "C", "D", "E", "F", "G", "H", "I", "J", "K", "L", "M",
               "N", "O", "P", "Q", "R", "S", "T", "U", "V", "W", "X", "Y", "Z">>
Digits == <<"0", "1", "2", "3", "4", "5", "6", "7", "8", "9">>

\* the characters other than letters that occur in names, in the order of the
\* collation (they sort before the letters)
Symbols == <<" ", "%", "0", "1", "2", "3", "4", "5", "6", "7", "8", "9">>

IndexIn(seq, c) ==
    IF \E i \in DOMAIN seq : seq[i] = c
    THEN CHOOSE i \in DOMAIN seq : seq[i] = c
    ELSE 0

\* the characters of the model
Characters ==
    {LowerCase[i] : i \in DOMAIN LowerCase} \cup {UpperCase[i] : i \in DOMAIN UpperCase}
    \cup {Symbols[i] : i \in DOMAIN Symbols} \cup {"_", "+", "-"}

\* 1..26 for a letter of either case, 0 for any other character
LetterIndexOf ==
    [c \in Characters |->
        IF IndexIn(LowerCase, c) # 0 THEN IndexIn(LowerCase, c)
        ELSE IndexIn(UpperCase, c)]

LetterIndex(c) == LetterIndexOf[c]

IsDigit(c) == c \in {Digits[i] : i \in DOMAIN Digits}

\* the weight of a character in the case-insensitive collation of the name
\* column: the two cases of a letter weigh the same
WeightOf ==
    [c \in Characters |->
        IF LetterIndexOf[c] # 0 THEN Len(Symbols) + LetterIndexOf[c]
        ELSE IndexIn(Symbols, c)]

Weight(c) == WeightOf[c]

\* characters that the collation holds equal
SameChar(c, d) ==
    IF LetterIndex(c) # 0 THEN LetterIndex(c) = LetterIndex(d) ELSE c = d

\* a <= b in the collation (ORDER BY m.name)
RECURSIVE CollateLeq(_, _)
CollateLeq(a, b) ==
    IF a = << >> THEN TRUE
    ELSE IF b = << >> THEN FALSE
    ELSE IF Weight(Head(a)) # Weight(Head(b))
         THEN Weight(Head(a)) < Weight(Head(b))
         ELSE CollateLeq(Tail(a), Tail(b))

\* name LIKE pattern: % stands for any run of characters, _ for any one
\* character, every other character for itself under the collation
RECURSIVE Like(_, _)
Like(name, pattern) ==
    IF pattern = << >> THEN name = << >>
    ELSE IF Head(pattern) = "%"
         THEN \/ Like(name, Tail(pattern))
              \/ name # << >> /\ Like(Tail(name), pattern)
         ELSE /\ name # << >>
              /\ Head(pattern) = "_" \/ SameChar(Head(name), Head(pattern))
              /\ Like(Tail(name), Tail(pattern))

\* the SOUNDEX digit of each letter A..Z
SoundexCode == <<0, 1, 2, 3, 0, 1, 2, 0, 0, 2, 2, 4, 5, 5, 0, 1, 2, 6, 2, 3,
                 0, 1, 0, 2, 0, 2>>

\* the digits SOUNDEX appends for the letters after the first: a letter of
\* digit 0 is dropped, and so is a digit equal to the last digit kept
RECURSIVE SoundexDigits(_, _)
SoundexDigits(letters, last) ==
    IF letters = << >> THEN << >>
    ELSE LET code == SoundexCode[LetterIndex(Head(letters))]
         IN  IF code # 0 /\ code # last
             THEN <<code>> \o SoundexDigits(Tail(letters), code)
             ELSE SoundexDigits(Tail(letters), last)

RECURSIVE ZeroPad(_)
ZeroPad(code) == IF Len(code) >= 4 THEN code ELSE ZeroPad(code \o <<0>>)

\* SOUNDEX(str): the first letter (as its index 1..26) followed by the digits
\* of the later letters, padded with 0 to four places; characters that are
\* not letters are skipped, and a str without letters gives the empty code
SOUNDEX(str) ==
    LET letters == SelectSeq(str, LAMBDA c : LetterIndex(c) # 0)
    IN  IF letters = << >> THEN << >>
        ELSE ZeroPad(<<LetterIndex(Head(letters))>>
                     \o SoundexDigits(Tail(letters),
                                      SoundexCode[LetterIndex(Head(letters))]))

\* str.strip() for the blank character
RECURSIVE Strip(_)
Strip(str) ==
    IF str # << >> /\ Head(str) = " " THEN Strip(Tail(str))
    ELSE IF str # << >> /\ str[Len(str)] = " "
         THEN Strip(SubSeq(str, 1, Len(str) - 1))
         ELSE str

RECURSIVE DigitsValue(_)
DigitsValue(str) ==
    IF str = << >> THEN 0
    ELSE IF str[Len(str)] = "_" THEN DigitsValue(SubSeq(str, 1, Len(str) - 1))
    ELSE 10 * DigitsValue(SubSeq(str, 1, Len(str) - 1))
         + (IndexIn(Digits, str[Len(str)]) - 1)

\* int(str): blanks around the number, a sign and single underscores between
\* digits are accepted; anything else raises ValueError
int(str) ==
    LET stripped == Strip(str)
        signed == stripped # << >> /\ Head(stripped) \in {"+", "-"}
        body == IF signed THEN Tail(stripped) ELSE stripped
        wellformed ==
            /\ body # << >>
            /\ \A i \in DOMAIN body : IsDigit(body[i]) \/ body[i] = "_"
            /\ IsDigit(body[1]) /\ IsDigit(body[Len(body)])
            /\ \A i \in 1 .. Len(body) - 1 : ~(body[i] = "_" /\ body[i+1] = "_")
    IN  IF ~wellformed THEN [raised |-> "ValueError", value |-> 0]
        ELSE [raised |-> "",
              value |-> IF signed /\ Head(stripped) = "-"
                        THEN 0 - DigitsValue(body) ELSE DigitsValue(body)]

-----------------------------------------------------------------------------
(* DatabaseManager: the queries that return lists *)

MaxSearchRows == 3     \* the ids a row of the searched table can have

\* ORDER BY rank, name: a key is the pair of a rank and a name
KeyLeq(k, l) == k[1] < l[1] \/ (k[1] = l[1] /\ CollateLeq(k[2], l[2]))

\* the sequences that hold each element of S once, in the order of the keys;
\* the store is free in the order of rows whose keys the ORDER BY holds equal
RECURSIVE Orderings(_, _)
Orderings(S, key) ==
    IF S = {} THEN {<< >>}
    ELSE UNION { { <<first>> \o rest : rest \in Orderings(S \ {first}, key) } :
                   first \in { id \in S : \A other \in S :
                                             KeyLeq(key[id], key[other]) } }

\* FROM menu_items m JOIN categories c ON m.category_id = c.id
Joined(items, cats) == { id \in DOMAIN items : items[id].category_id \in DOMAIN cats }

\* a row of the result as the MenuItem the list comprehension builds
Hydrate(items, cats, id) ==
    MenuItem(id, items[id].name, items[id].description, items[id].price,
             items[id].category_id, items[id].image, items[id].image_name,
             cats[items[id].category_id])

\* f"%{search_term}%"
SearchPattern(search_term) == <<"%">> \o search_term \o <<"%">>

\* the WHERE clause of search_menu_items; id_param is the outcome of
\* int(search_term), search_pattern and search_term are the other parameters
SearchWhere(row, id, id_param, search_pattern, search_term) ==
    \/ id_param.raised = "" /\ id = id_param.value
    \/ Like(row.name, search_pattern)
    \/ SOUNDEX(row.name) = SOUNDEX(search_term)

\* the CASE expression of the ORDER BY of search_menu_items
SearchRank(row, search_pattern, search_term) ==
    IF Like(row.name, search_pattern) THEN 1
    ELSE IF SOUNDEX(row.name) = SOUNDEX(search_term) THEN 2
    ELSE 3

\* the rows that satisfy the WHERE clause of search_menu_items, each with
\* its key in the ORDER BY: the rank and the name
SearchKeys(items, cats, id_param, search_pattern, search_term) ==
    [id \in { row_id \in Joined(items, cats) :
                SearchWhere(items[row_id], row_id, id_param, search_pattern,
                            search_term) } |->
        <<SearchRank(items[id], search_pattern, search_term), items[id].name>>]

\* the lists search_menu_items can return: the rows that satisfy the WHERE
\* clause, each once (the ids are distinct), by rank and then by name
search_menu_items(items, cats, search_term) ==
    UNION { { [i \in DOMAIN seq |-> Hydrate(items, cats, seq[i])] :
                seq \in Orderings(DOMAIN key, key) } :
            key \in { SearchKeys(items, cats, id_param, search_pattern,
                                 search_term) :
                        id_param \in {int(search_term)},
                        search_pattern \in {SearchPattern(search_term)} } }

\* get_all_menu_items that returns the rows in the order of their ids
get_all_menu_items_OrderById(items, cats) ==
    UNION { { [i \in DOMAIN seq |-> Hydrate(items, cats, seq[i])] :
                seq \in Orderings(DOMAIN key, key) } :
            key \in {[id \in Joined(items, cats) |-> <<id, << >> >>]} }

\* the lists get_all_menu_items can return: every joined row, by name
get_all_menu_items(items, cats) ==
    UNION { { [i \in DOMAIN seq |-> Hydrate(items, cats, seq[i])] :
                seq \in Orderings(DOMAIN key, key) } :
            key \in {[id \in Joined(items, cats) |-> <<1, items[id].name>>]} }

\* names of rows
Latte == <<"L", "a", "t", "t", "e">>
LatteMacchiato == Latte \o <<" ", "M", "a", "c", "c", "h", "i", "a", "t", "o">>
Mocha == <<"M", "o", "c", "h", "a">>
Moka == <<"M", "o", "k", "a">>
Te1 == <<"T", "e", " ", "1">>
Te1Percent == <<"T", "e", " ", "1", "%">>

SearchNames == {Latte, LatteMacchiato, Mocha, Moka, Te1, Te1Percent}

\* search terms: names and parts of names in either case, names that only
\* sound alike, ids, and text with the characters % and _
SearchTerms ==
    { Latte, <<"l", "a", "t", "t", "e">>, <<"L", "a", "d", "a">>, Moka, <<"a">>,
      <<"1">>, <<" ", "2">>, <<"1", "a">>,
      <<"%">>, <<"_", "a", "_", "_", "e">>, Te1Percent, << >> }

\* the row with a name, in the category 1 or 2 by the parity of its id
SearchRow(id, name) ==
    RowOf(MenuItem(id, name, "Hot tea", 2500, 2 - (id % 2), IMG1, "tea.png", None))

InitSearch ==
    /\ \E ids \in SUBSET (1 .. MaxSearchRows) :
          \E names \in [ids -> SearchNames] :
              menu_items = [id \in ids |-> SearchRow(id, names[id])]
    /\ categories = Categories
    /\ auto_increment = MaxSearchRows + 1
    /\ connection = "connected"
    /\ reachable = TRUE
    /\ sessions = 1
    /\ NoForm
    /\ NoRace
    /\ call = NoCall
    /\ e2e = 0

\* a caller invokes search_menu_items(search_term)
SearchMenuItems(search_term) ==
    \E session \in {Session("search", TRUE, connection, reachable)} :
        /\ \E results \in IF Live(session)
                          THEN search_menu_items(menu_items, categories,
                                                 search_term)
                          ELSE {<< >>} :
              call' = [NoCall EXCEPT
                          !.op = "search", !.term = search_term,
                          !.raised = IF Live(session) THEN "" ELSE "Exception",
                          !.ret_list = results,
                          !.stmts = IF Live(session) THEN <<"SELECT">>
                                                     ELSE << >>,
                          !.before = menu_items,
                          !.connects = session.connects,
                          !.conn_before = connection]
        /\ connection' = session.connection
        /\ sessions' = sessions + Opened(session)
        /\ UNCHANGED <<menu_items, categories, auto_increment, reachable, e2e>>
        /\ UNCHANGED outside

SearchMenuItemsCall == \E search_term \in SearchTerms : SearchMenuItems(search_term)

\* a caller invokes get_all_menu_items()
GetAllMenuItemsCall ==
    \E session \in {Session("list", TRUE, connection, reachable)} :
        /\ \E results \in IF Live(session)
                          THEN get_all_menu_items(menu_items, categories)
                          ELSE {<< >>} :
              call' = [NoCall EXCEPT
                          !.op = "list",
                          !.raised = IF Live(session) THEN "" ELSE "Exception",
                          !.ret_list = results,
                          !.stmts = IF Live(session) THEN <<"SELECT">>
                                                     ELSE << >>,
                          !.before = menu_items,
                          !.connects = session.connects,
                          !.conn_before = connection]
        /\ connection' = session.connection
        /\ sessions' = sessions + Opened(session)
        /\ UNCHANGED <<menu_items, categories, auto_increment, reachable, e2e>>
        /\ UNCHANGED outside

NextSearch == SearchMenuItemsCall \/ GetAllMenuItemsCall

SpecSearch == InitSearch /\ [][NextSearch]_vars

-----------------------------------------------------------------------------
(* Properties of the queries that return lists *)

\* name contains term as a case-insensitive substring
Contains(name, term) ==
    \E k \in 0 .. Len(name) - Len(term) :
        \A j \in 1 .. Len(term) : SameChar(name[k + j], term[j])

\* the phonetic code of name equals the phonetic code of term
SoundsLike(name, term) == SOUNDEX(name) = SOUNDEX(term)

\* term parses as an integer and id equals it
IdIs(id, term) == int(term).raised = "" /\ id = int(term).value

\* the decimal string of an id
DecimalString(id) == <<Digits[id + 1]>>

IdsOf(list) == { list[i].id : i \in DOMAIN list }

\* C11: search_menu_items(term) returns exactly the rows whose id equals
\* int(term) when term parses as an integer, or whose name contains term as a
\* case-insensitive substring, or whose name has the phonetic code of term,
\* each such row once
C11_AsStated ==
    call.op = "search"
    => LET matching == { id \in DOMAIN menu_items :
                           \/ IdIs(id, call.term)
                           \/ Contains(menu_items[id].name, call.term)
                           \/ SoundsLike(menu_items[id].name, call.term) }
       IN  /\ IdsOf(call.ret_list) = matching
           /\ Len(call.ret_list) = Cardinality(matching)
           /\ \A i \in DOMAIN call.ret_list :
                 RowOf(call.ret_list[i]) = menu_items[call.ret_list[i].id]

\* the rank the specification gives a returned row: 1 when its name contains
\* the term, 2 when it matches only phonetically, 3 when it matches only by
\* id, 0 when it matches in none of these ways
StatedRank(item, term) ==
    IF Contains(item.name, term) THEN 1
    ELSE IF SoundsLike(item.name, term) THEN 2
    ELSE IF IdIs(item.id, term) THEN 3
    ELSE 0

\* C12: in the result of search_menu_items(term) every row whose name
\* contains term precedes every row that matches only phonetically, which
\* precedes every row that matches only by id; rows of the same rank are in
\* ascending order of name; with the rows Latte, Latte Macchiato and Mocha
\* the search for Latte returns Latte, Latte Macchiato
C12_AsStated ==
    call.op = "search"
    => /\ \A i, j \in DOMAIN call.ret_list :
             LET ri == StatedRank(call.ret_list[i], call.term)
                 rj == StatedRank(call.ret_list[j], call.term)
             IN  (i < j /\ ri # 0 /\ rj # 0)
                 => /\ ri <= rj
                    /\ ri = rj => CollateLeq(call.ret_list[i].name,
                                             call.ret_list[j].name)
       /\ (/\ call.term = Latte
           /\ Cardinality(DOMAIN menu_items) = 3
           /\ {menu_items[id].name : id \in DOMAIN menu_items}
                 = {Latte, LatteMacchiato, Mocha})
          => [i \in DOMAIN call.ret_list |-> call.ret_list[i].name]
                = <<Latte, LatteMacchiato>>

\* C13: the search for the decimal string of the id of a row returns that
\* row, whatever the names; a term that does not parse as an integer raises
\* no error and brings no row by its id, and when no name contains it and no
\* name has its phonetic code the result is empty
C13_AsStated ==
    call.op = "search"
    => /\ call.raised = ""
       /\ \A id \in DOMAIN menu_items :
             call.term = DecimalString(id) => id \in IdsOf(call.ret_list)
       /\ int(call.term).raised # ""
          => \A i \in DOMAIN call.ret_list :
                \/ Contains(call.ret_list[i].name, call.term)
                \/ SoundsLike(call.ret_list[i].name, call.term)

\* C14: get_all_menu_items returns every row of menu_items, each with the
\* category_name of its category, in ascending order of name
C14_GetAll ==
    call.op = "list"
    => /\ IdsOf(call.ret_list) = DOMAIN menu_items
       /\ Len(call.ret_list) = Cardinality(DOMAIN menu_items)
       /\ \A i \in DOMAIN call.ret_list :
             LET item == call.ret_list[i]
             IN  /\ RowOf(item) = menu_items[item.id]
                 /\ item.category_name = categories[item.category_id]
       /\ \A i \in 1 .. Len(call.ret_list) - 1 :
             CollateLeq(call.ret_list[i].name, call.ret_list[i+1].name)

\* three rows of both categories have been listed, against the order of
\* their ids
C14_Witness ==
    /\ call.op = "list"
    /\ [i \in DOMAIN call.ret_list |-> call.ret_list[i].id] = <<3, 2, 1>>
    /\ [i \in DOMAIN call.ret_list |-> call.ret_list[i].name]
          = <<Latte, LatteMacchiato, Mocha>>
    /\ call.ret_list[1].category_name = HotDrinks
    /\ call.ret_list[2].category_name = ColdDrinks

-----------------------------------------------------------------------------
(* The connection: every public operation with a connection that drops *)

\* the lists get_categories can return: the (id, name) rows by name
get_categories(cats) ==
    { [i \in DOMAIN seq |-> <<seq[i], cats[seq[i]]>>] :
        seq \in Orderings(DOMAIN cats, [id \in DOMAIN cats |-> <<1, cats[id]>>]) }

\* a caller invokes has_changes(item_id, new_item)
HasChanges(item_id, new_item) ==
    \E session \in {Session("has_changes", TRUE, connection, reachable)} :
    \E out \in {has_changes(menu_items, categories, item_id, new_item)} :
        /\ connection' = session.connection
        /\ sessions' = sessions + Opened(session)
        /\ call' = [NoCall EXCEPT
                        !.op = "has_changes", !.id = item_id, !.item = new_item,
                        !.raised = IF Live(session) THEN "" ELSE "Exception",
                        !.ret_bool = IF Live(session) THEN out.ret ELSE FALSE,
                        !.item_after = IF Live(session) THEN out.new_item
                                                        ELSE new_item,
                        !.stmts = IF Live(session) THEN <<"SELECT">> ELSE << >>,
                        !.before = menu_items,
                        !.connects = session.connects,
                        !.conn_before = connection]
        /\ UNCHANGED <<menu_items, categories, auto_increment, reachable, e2e>>
        /\ UNCHANGED outside

\* a caller invokes get_categories()
GetCategoriesCall ==
    \E session \in {Session("categories", TRUE, connection, reachable)} :
        /\ \E results \in IF Live(session) THEN get_categories(categories)
                                           ELSE {<< >>} :
              call' = [NoCall EXCEPT
                          !.op = "categories",
                          !.raised = IF Live(session) THEN "" ELSE "Exception",
                          !.ret_list = results,
                          !.stmts = IF Live(session) THEN <<"SELECT">>
                                                     ELSE << >>,
                          !.before = menu_items,
                          !.connects = session.connects,
                          !.conn_before = connection]
        /\ connection' = session.connection
        /\ sessions' = sessions + Opened(session)
        /\ UNCHANGED <<menu_items, categories, auto_increment, reachable, e2e>>
        /\ UNCHANGED outside

\* the session ends (the server or the network drops it): is_connected()
\* is False from now on
DropConnection ==
    /\ connection = "connected"
    /\ connection' = "disconnected"
    /\ sessions' = sessions - 1
    /\ call' = NoCall
    /\ UNCHANGED <<menu_items, categories, auto_increment, reachable, e2e>>
    /\ UNCHANGED outside

\* the store stops accepting connections, and the open one is lost
StoreDown ==
    /\ reachable
    /\ reachable' = FALSE
    /\ connection' = "disconnected"
    /\ sessions' = IF connection = "connected" THEN sessions - 1 ELSE sessions
    /\ call' = NoCall
    /\ UNCHANGED <<menu_items, categories, auto_increment, e2e>>
    /\ UNCHANGED outside

\* the store accepts connections again
StoreUp ==
    /\ ~reachable
    /\ reachable' = TRUE
    /\ call' = NoCall
    /\ UNCHANGED <<menu_items, categories, auto_increment, connection, sessions, e2e>>
    /\ UNCHANGED outside

\* the arguments of the calls under SpecConn
ConnItems == {Tea, [Tea EXCEPT !.name = << >>]}
ConnIds == {0, 1}
ConnTerms == {TeaName, <<"1">>}

CreateConn == \E data \in ConnItems : CreateMenuItem(data)
ReadConn == \E item_id \in ConnIds : ReadMenuItem(item_id)
UpdateConn == \E item_id \in ConnIds : UpdateMenuItem(TeaUpdate, item_id)
DeleteConn == \E item_id \in ConnIds : DeleteMenuItem(item_id)
SearchConn == \E search_term \in ConnTerms : SearchMenuItems(search_term)
HasChangesConn ==
    \E item_id \in ConnIds, new_item \in {Tea, TeaUpdate} :
        HasChanges(item_id, new_item)

NextConn ==
    \/ CreateConn
    \/ ReadConn
    \/ UpdateConn
    \/ DeleteConn
    \/ GetAllMenuItemsCall
    \/ GetCategoriesCall
    \/ SearchConn
    \/ HasChangesConn
    \/ DropConnection
    \/ StoreDown
    \/ StoreUp

SpecConn == Init /\ [][NextConn]_vars

\* the outcome of the last call is the one the operation has on the store
\* as it was before the call, over a connection that never dropped
SameAsConnected ==
    CASE call.op = "create" ->
            LET out == create_menu_item(call.before, categories,
                                        IF call.raised = "" THEN auto_increment - 1
                                                            ELSE auto_increment,
                                        call.item)
            IN  /\ call.raised = out.raised
                /\ call.ret_id = out.ret
                /\ menu_items = out.menu_items
      [] call.op = "read" ->
            /\ call.raised = ""
            /\ call.ret_item = read_menu_item(call.before, categories, call.id)
            /\ menu_items = call.before
      [] call.op = "update" ->
            LET out == update_menu_item(call.before, categories, call.item)
            IN  /\ call.raised = out.raised
                /\ call.ret_bool = out.ret
                /\ call.item_after = out.item
                /\ menu_items = out.menu_items
      [] call.op = "delete" ->
            LET out == delete_menu_item(call.before, call.id)
            IN  /\ call.raised = out.raised
                /\ call.ret_bool = out.ret
                /\ menu_items = out.menu_items
      [] call.op = "list" ->
            /\ call.raised = ""
            /\ call.ret_list \in get_all_menu_items(call.before, categories)
            /\ menu_items = call.before
      [] call.op = "categories" ->
            /\ call.raised = ""
            /\ call.ret_list \in get_categories(categories)
            /\ menu_items = call.before
      [] call.op = "search" ->
            /\ call.raised = ""
            /\ call.ret_list
                  \in search_menu_items(call.before, categories, call.term)
            /\ menu_items = call.before
      [] call.op = "has_changes" ->
            LET out == has_changes(call.before, categories, call.id, call.item)
            IN  /\ call.raised = ""
                /\ call.ret_bool = out.ret
                /\ call.item_after = out.new_item
                /\ menu_items = call.before

\* C19 as stated: every public operation invoked while the handle is absent
\* or disconnected re-opens the connection and then has the same result as if
\* the connection had never dropped, provided the store is reachable
C19_AsStated ==
    (/\ call.op \in PublicOperations
     /\ call.conn_before # "connected"
     /\ reachable)
    => /\ connection = "connected"
       /\ call.connects = 1
       /\ SameAsConnected

\* C19: a public operation invoked while the handle is disconnected and the
\* store is reachable has the same result as if the connection had never
\* dropped; it re-opens the connection, once, unless the check of its
\* arguments raises ValueError, and then it leaves the handle as it was
C19_Reconnect ==
    (/\ call.op \in PublicOperations
     /\ call.conn_before # "connected"
     /\ reachable)
    => /\ SameAsConnected
       /\ call.raised # "ValueError"
          => connection = "connected" /\ call.connects = 1
       /\ call.raised = "ValueError"
          => connection = call.conn_before /\ call.connects = 0

\* an update over a dropped connection has re-opened it and changed the row
C19_Witness ==
    /\ call.op = "update"
    /\ call.conn_before = "disconnected"
    /\ reachable
    /\ connection = "connected"
    /\ call.connects = 1
    /\ call.ret_bool
    /\ call.id \in DOMAIN menu_items
    /\ menu_items[call.id].price = TeaUpdate.price

\* C20: a public operation calls connect() at most once; when the handle is
\* down and the reconnect fails, the operation fails with the connection
\* error, executes no statement and leaves the store as it was
C20_SingleAttempt ==
    call.op \in PublicOperations
    => /\ call.connects <= 1
       /\ (call.connects = 1 /\ ~reachable)
          => /\ call.raised = "Exception"
             /\ call.stmts = << >>
             /\ menu_items = call.before
             /\ connection = call.conn_before
       /\ (call.conn_before # "connected" /\ ~reachable
           /\ call.raised # "ValueError")
          => call.connects = 1

\* an update of a stored row has failed on the one reconnect it attempted
C20_Witness ==
    /\ call.op = "update"
    /\ call.id \in DOMAIN menu_items
    /\ call.conn_before = "disconnected"
    /\ ~reachable
    /\ call.connects = 1
    /\ call.raised = "Exception"
    /\ menu_items = call.before

----------------------------------------------------------------------------
(* Change detection: has_changes over the stores that create, update and   *)
(* delete leave                                                            *)

\* candidates passed to has_changes: the items of update_menu_item, and Tea
\* without image bytes under another image name or with empty bytes
ChangesCandidates ==
    UpdateData
    \cup {[Tea EXCEPT !.image = None, !.image_name = "other.png"],
          [Tea EXCEPT !.image = "", !.image_name = "other.png"]}

HasChangesCall ==
    \E item_id \in IdArgs, new_item \in ChangesCandidates :
        HasChanges(item_id, new_item)

\* updates that change the price or the image of the stored row
UpdateChanges ==
    \E data \in {TeaUpdate, [Tea EXCEPT !.image = IMG2]}, item_id \in ConnIds :
        UpdateMenuItem(data, item_id)

NextChanges ==
    \/ CreateConn
    \/ UpdateChanges
    \/ DeleteConn
    \/ HasChangesCall

SpecChanges == Init /\ [][NextChanges]_vars

\* C23: has_changes returns True when read_menu_item finds no row, and
\* otherwise the negation of current.equals(candidate), candidate being the
\* item as the call leaves it; it never modifies the store
C23_HasChanges ==
    call.op = "has_changes"
    => /\ menu_items = call.before
       /\ call.raised = ""
          => LET current_item == read_menu_item(call.before, categories,
                                                call.id)
             IN  IF current_item = << >>
                 THEN call.ret_bool
                 ELSE call.ret_bool
                          = ~equals(current_item[1], call.item_after)

\* has_changes has found a change of the price of a stored row
C23_Witness ==
    /\ call.op = "has_changes"
    /\ call.raised = ""
    /\ call.id \in DOMAIN menu_items
    /\ call.ret_bool
    /\ call.item.price # menu_items[call.id].price
    /\ menu_items = call.before

\* C24: for a stored row, has_changes with candidate.image absent and the
\* candidate's name, description, price and category_id equal to the stored
\* ones returns False whatever candidate.image_name is, and leaves
\* candidate.image and candidate.image_name set to the stored pair
C24_AbsentImage ==
    (/\ call.op = "has_changes"
     /\ call.raised = ""
     /\ call.id \in DOMAIN call.before
     /\ ~Truthy(call.item.image)
     /\ call.item.name = call.before[call.id].name
     /\ call.item.description = call.before[call.id].description
     /\ call.item.price = call.before[call.id].price
     /\ call.item.category_id = call.before[call.id].category_id)
    => /\ ~call.ret_bool
       /\ call.item_after.image = call.before[call.id].image
       /\ call.item_after.image_name = call.before[call.id].image_name

\* has_changes has found no change in a candidate without image bytes whose
\* image_name is not the stored one
C24_Witness ==
    /\ call.op = "has_changes"
    /\ call.raised = ""
    /\ call.id \in DOMAIN menu_items
    /\ ~Truthy(call.item.image)
    /\ call.item.image_name = "other.png"
    /\ menu_items[call.id].image_name # "other.png"
    /\ call.item.price = menu_items[call.id].price
    /\ ~call.ret_bool
    /\ call.item_after.image = menu_items[call.id].image
    /\ call.item_after.image_name = menu_items[call.id].image_name

----------------------------------------------------------------------------
(* Frame of the operations *)

\* C26: a successful create adds exactly one row, with an id no row had, and
\* changes no other row; update changes at most the row of item.id and no
\* id; delete removes at most the row of the given id and changes no row;
\* read, list, categories, search and has_changes change no row; no
\* operation changes the categories table
C26_Frame ==
    /\ categories = Categories
    /\ (call.op = "create" /\ call.raised = "")
       => /\ call.ret_id \notin DOMAIN call.before
          /\ DOMAIN menu_items = DOMAIN call.before \cup {call.ret_id}
          /\ \A i \in DOMAIN call.before : menu_items[i] = call.before[i]
    /\ call.op = "update"
       => /\ DOMAIN menu_items = DOMAIN call.before
          /\ SameExcept(menu_items, call.before, call.id)
    /\ call.op = "delete"
       => /\ DOMAIN call.before \ DOMAIN menu_items \subseteq {call.id}
          /\ DOMAIN menu_items \subseteq DOMAIN call.before
          /\ \A i \in DOMAIN menu_items : menu_items[i] = call.before[i]
    /\ call.op \in {"read", "list", "categories", "search", "has_changes"}
       => menu_items = call.before

\* an update has changed one of two rows and left the other as it was
C26_Witness ==
    /\ call.op = "update"
    /\ call.raised = ""
    /\ call.ret_bool
    /\ Cardinality(DOMAIN menu_items) = 2
    /\ menu_items[call.id] # call.before[call.id]
    /\ \E i \in DOMAIN menu_items :
          i # call.id /\ menu_items[i] = call.before[i]

----------------------------------------------------------------------------
(* Storage errors during the mutating statement *)

\* what happens to the INSERT, UPDATE or DELETE of a call: it runs, the store
\* rejects it (constraint, lock wait timeout, deadlock) with the connection
\* intact, or the connection is lost while it runs
StatementFaults == {"none", "rejected", "lost"}

MutatingStatements == {"INSERT", "UPDATE", "DELETE"}

\* stmts holds a mutating statement
Mutates(stmts) == \E i \in DOMAIN stmts : stmts[i] \in MutatingStatements

\* the statements of stmts up to and including the mutating one
RECURSIVE UpToMutating(_)
UpToMutating(stmts) ==
    IF stmts = << >> THEN << >>
    ELSE IF Head(stmts) \in MutatingStatements THEN << Head(stmts) >>
    ELSE << Head(stmts) >> \o UpToMutating(Tail(stmts))

\* self.connection.rollback() in an except block: ROLLBACK is sent over a live
\* connection; over a lost one the driver raises its own Error
rollback(conn) ==
    IF conn = "connected"
    THEN [raised |-> FALSE, stmts |-> << "ROLLBACK" >>]
    ELSE [raised |-> TRUE, stmts |-> << >>]

\* the try/except Error of a mutating operation whose outcome without a fault
\* is out: the statement raises Error, the handler calls rollback() and then
\* raises the generic Exception, unless rollback() has raised before it.  A
\* lost session's open transaction is rolled back by the store.
except_Error(out, items, fault) ==
    IF fault = "none" \/ ~Mutates(out.stmts)
    THEN [raised |-> out.raised, menu_items |-> out.menu_items,
          stmts |-> out.stmts, connection |-> "connected", failed |-> FALSE]
    ELSE LET conn == IF fault = "lost" THEN "disconnected" ELSE "connected"
             rb == rollback(conn)
         IN  [raised |-> IF rb.raised THEN "Error" ELSE "Exception",
              menu_items |-> items,
              stmts |-> UpToMutating(out.stmts) \o rb.stmts,
              connection |-> conn, failed |-> TRUE]

\* items passed to the operations under faults: Tea, the scenario's update,
\* Tea in a category that does not exist, and an incomplete Tea
FaultData ==
    {Tea, TeaUpdate, [Tea EXCEPT !.category_id = 9], [Tea EXCEPT !.name = << >>]}

\* a caller invokes create_menu_item(data); fault is what its INSERT meets
CreateMenuItemFault(data, fault) ==
    \E out \in {create_menu_item(menu_items, categories, auto_increment, data)} :
    \E session \in {Session("create", out.raised # "ValueError",
                            connection, reachable)} :
    \E done \in {out.raised = "ValueError" \/ Live(session)} :
    \E res \in {except_Error(out, menu_items, fault)} :
        /\ auto_increment <= MaxId
        /\ Cardinality(DOMAIN menu_items) < MaxRows
        /\ menu_items' = IF done THEN res.menu_items ELSE menu_items
        /\ auto_increment' = IF done /\ res.raised = "" THEN auto_increment + 1
                                                         ELSE auto_increment
        /\ connection' = IF done /\ res.failed THEN res.connection
                                               ELSE session.connection
        /\ sessions' = sessions + Opened(session)
                       - (IF done /\ res.failed /\ res.connection # "connected"
                          THEN 1 ELSE 0)
        /\ call' = [NoCall EXCEPT
                        !.op = "create", !.item = data, !.id = data.id,
                        !.raised = IF done THEN res.raised ELSE "Exception",
                        !.ret_id = IF done /\ ~res.failed THEN out.ret ELSE 0,
                        !.item_after = data,
                        !.stmts = IF done THEN res.stmts ELSE << >>,
                        !.before = menu_items,
                        !.connects = session.connects,
                        !.conn_before = connection,
                        !.fault = IF done /\ res.failed THEN fault ELSE "none"]
        /\ e2e' = ScenarioStep(e2e, call, "create", data, data.id)
        /\ UNCHANGED <<categories, reachable>>
        /\ UNCHANGED outside

CreateMenuItemFaultCall ==
    \E data \in FaultData, fault \in StatementFaults :
        CreateMenuItemFault(data, fault)

\* a caller invokes update_menu_item(item); fault is what its UPDATE meets
UpdateMenuItemFault(data, item_id, fault) ==
    \E item \in {[data EXCEPT !.id = item_id]} :
    \E out \in {update_menu_item(menu_items, categories, item)} :
    \E session \in {Session("update", out.raised # "ValueError",
                            connection, reachable)} :
    \E done \in {out.raised = "ValueError" \/ Live(session)} :
    \E res \in {except_Error(out, menu_items, fault)} :
        /\ menu_items' = IF done THEN res.menu_items ELSE menu_items
        /\ connection' = IF done /\ res.failed THEN res.connection
                                               ELSE session.connection
        /\ sessions' = sessions + Opened(session)
                       - (IF done /\ res.failed /\ res.connection # "connected"
                          THEN 1 ELSE 0)
        /\ call' = [NoCall EXCEPT
                        !.op = "update", !.item = item, !.id = item_id,
                        !.raised = IF done THEN res.raised ELSE "Exception",
                        !.ret_bool = IF done /\ ~res.failed THEN out.ret
                                                            ELSE FALSE,
                        !.item_after = IF done THEN out.item ELSE item,
                        !.stmts = IF done THEN res.stmts ELSE << >>,
                        !.before = menu_items,
                        !.chain = ChainOfUpdate(call, item),
                        !.connects = session.connects,
                        !.conn_before = connection,
                        !.fault = IF done /\ res.failed THEN fault ELSE "none"]
        /\ e2e' = ScenarioStep(e2e, call, "update", item, item_id)
        /\ UNCHANGED <<categories, auto_increment, reachable>>
        /\ UNCHANGED outside

UpdateMenuItemFaultCall ==
    \E data \in FaultData, item_id \in IdArgs, fault \in StatementFaults :
        UpdateMenuItemFault(data, item_id, fault)

\* a caller invokes delete_menu_item(item_id); fault is what its DELETE meets
DeleteMenuItemFault(item_id, fault) ==
    \E out \in {delete_menu_item(menu_items, item_id)} :
    \E session \in {Session("delete", out.raised # "ValueError",
                            connection, reachable)} :
    \E done \in {out.raised = "ValueError" \/ Live(session)} :
    \E res \in {except_Error(out, menu_items, fault)} :
        /\ menu_items' = IF done THEN res.menu_items ELSE menu_items
        /\ connection' = IF done /\ res.failed THEN res.connection
                                               ELSE session.connection
        /\ sessions' = sessions + Opened(session)
                       - (IF done /\ res.failed /\ res.connection # "connected"
                          THEN 1 ELSE 0)
        /\ call' = [NoCall EXCEPT
                        !.op = "delete", !.id = item_id,
                        !.raised = IF done THEN res.raised ELSE "Exception",
                        !.ret_bool = IF done /\ ~res.failed THEN out.ret
                                                            ELSE FALSE,
                        !.stmts = IF done THEN res.stmts ELSE << >>,
                        !.before = menu_items,
                        !.connects = session.connects,
                        !.conn_before = connection,
                        !.fault = IF done /\ res.failed THEN fault ELSE "none"]
        /\ e2e' = ScenarioStep(e2e, call, "delete", NoItem, item_id)
        /\ UNCHANGED <<categories, auto_increment, reachable>>
        /\ UNCHANGED outside

DeleteMenuItemFaultCall ==
    \E item_id \in IdArgs, fault \in StatementFaults :
        DeleteMenuItemFault(item_id, fault)

NextFault ==
    \/ CreateMenuItemFaultCall
    \/ ReadMenuItemCall
    \/ UpdateMenuItemFaultCall
    \/ DeleteMenuItemFaultCall

SpecFault == Init /\ [][NextFault]_vars

\* the last call was a mutating operation whose INSERT, UPDATE or DELETE
\* raised a storage error
StorageErrorInStatement ==
    /\ call.op \in {"create", "update", "delete"}
    /\ Mutates(call.stmts)
    /\ call.raised # ""

\* C21: a storage error raised during the mutating statement of create, update
\* or delete is rolled back and surfaced as the generic persistence error, and
\* the store after the failed call is the store before it
C21_AsStated ==
    StorageErrorInStatement
    => /\ call.raised = "Exception"
       /\ call.stmts[Len(call.stmts)] = "ROLLBACK"
       /\ menu_items = call.before

\* what holds of every such call: the store is the store before it
C21_StoreUnchanged ==
    StorageErrorInStatement => menu_items = call.before

----------------------------------------------------------------------------
(* MainWindow: the handlers of the form (src/src/ui_main.py).  A handler   *)
(* maps the window w, a record of the variables of the form and of its     *)
(* DatabaseManager, to the set of windows it can leave: more than one      *)
(* when a list query orders equal names either way.                        *)

\* the window the variables hold; dialogs and pdf_path are those of the
\* handler that starts
Window ==
    [menu_items |-> menu_items, auto_increment |-> auto_increment,
     connection |-> connection, sessions |-> sessions,
     current_items |-> current_items, current_index |-> current_index,
     id_input |-> id_input, name_input |-> name_input,
     description_input |-> description_input, price_input |-> price_input,
     category_combo |-> category_combo, search_input |-> search_input,
     current_image |-> current_image,
     current_image_name |-> current_image_name,
     new_btn |-> new_btn, save_btn |-> save_btn, delete_btn |-> delete_btn,
     prev_btn |-> prev_btn, next_btn |-> next_btn, tmp_files |-> tmp_files,
     dialogs |-> << >>, pdf_path |-> 0]

\* the variables hold the window w, left by handler, which was given text
IsWindow(w, handler, text) ==
    /\ menu_items = w.menu_items
    /\ auto_increment = w.auto_increment
    /\ connection = w.connection
    /\ sessions = w.sessions
    /\ current_items = w.current_items
    /\ current_index = w.current_index
    /\ id_input = w.id_input
    /\ name_input = w.name_input
    /\ description_input = w.description_input
    /\ price_input = w.price_input
    /\ category_combo = w.category_combo
    /\ search_input = w.search_input
    /\ current_image = w.current_image
    /\ current_image_name = w.current_image_name
    /\ new_btn = w.new_btn
    /\ save_btn = w.save_btn
    /\ delete_btn = w.delete_btn
    /\ prev_btn = w.prev_btn
    /\ next_btn = w.next_btn
    /\ tmp_files = w.tmp_files
    /\ shown = [handler |-> handler, text |-> text, dialogs |-> w.dialogs,
                pdf_path |-> w.pdf_path]

\* the handler leaves the window w
Becomes(w, handler, text) ==
    /\ menu_items' = w.menu_items
    /\ auto_increment' = w.auto_increment
    /\ connection' = w.connection
    /\ sessions' = w.sessions
    /\ current_items' = w.current_items
    /\ current_index' = w.current_index
    /\ id_input' = w.id_input
    /\ name_input' = w.name_input
    /\ description_input' = w.description_input
    /\ price_input' = w.price_input
    /\ category_combo' = w.category_combo
    /\ search_input' = w.search_input
    /\ current_image' = w.current_image
    /\ current_image_name' = w.current_image_name
    /\ new_btn' = w.new_btn
    /\ save_btn' = w.save_btn
    /\ delete_btn' = w.delete_btn
    /\ prev_btn' = w.prev_btn
    /\ next_btn' = w.next_btn
    /\ tmp_files' = w.tmp_files
    /\ shown' = [handler |-> handler, text |-> text, dialogs |-> w.dialogs,
                 pdf_path |-> w.pdf_path]
    /\ call' = NoCall
    /\ UNCHANGED <<categories, reachable, e2e, raceVars>>

\* QMessageBox.information / question / critical (show_error)
show(w, dialog) == [w EXCEPT !.dialogs = Append(@, dialog)]

\* a public operation of self.db whose arguments pass its check starts: its
\* calls of ensure_connection run; ok when its statements can run
Ensured(w, op) ==
    LET session == Session(op, TRUE, w.connection, reachable)
    IN  [w |-> [w EXCEPT !.connection = session.connection,
                         !.sessions = @ + Opened(session)],
         ok |-> Live(session)]

\* the text of the first entry of category_combo
SelectACategory ==
    <<"S", "e", "l", "e", "c", "t", " ", "a", " ",
      "c", "a", "t", "e", "g", "o", "r", "y">>

\* category_combo.findText(category_name), as the id of the entry found;
\* the combo holds the categories load_categories put there
findText(cats, category_name) ==
    IF \E id \in DOMAIN cats : cats[id] = category_name
    THEN CHOOSE id \in DOMAIN cats : cats[id] = category_name
    ELSE NoneId

clear_image(w) ==
    [w EXCEPT !.current_image = None, !.current_image_name = None]

display_current_item(w) ==
    IF 0 <= w.current_index /\ w.current_index < Len(w.current_items)
    THEN LET item == w.current_items[w.current_index + 1]
             index == findText(categories, item.category_name)
         IN  [w EXCEPT
                 !.id_input = item.id,
                 !.name_input = item.name,
                 !.description_input = item.description,
                 !.price_input = item.price,
                 !.category_combo = IF index # NoneId THEN index ELSE @,
                 !.current_image =
                     IF Truthy(item.image) THEN item.image ELSE None,
                 !.current_image_name =
                     IF Truthy(item.image) THEN item.image_name ELSE None,
                 !.new_btn = FALSE, !.save_btn = TRUE, !.delete_btn = TRUE]
    ELSE w

update_navigation_buttons(w) ==
    [w EXCEPT !.prev_btn = w.current_index > 0,
              !.next_btn = w.current_index < Len(w.current_items) - 1,
              !.delete_btn = w.id_input # NoneId]

RECURSIVE search_items(_)

\* clear_fields: search_input.clear() in the middle of it emits textChanged
\* when the box held text, and search_items runs before the rest of it
clear_fields(w) ==
    LET cleared == [w EXCEPT !.id_input = NoneId, !.name_input = << >>,
                             !.description_input = "",
                             !.price_input = NoPrice,
                             !.category_combo = NoneId,
                             !.search_input = << >>]
        after_signal == IF w.search_input # << >> THEN search_items(cleared)
                                                  ELSE {cleared}
    IN  { [clear_image(x) EXCEPT !.category_combo = NoneId,
                                 !.new_btn = TRUE, !.save_btn = FALSE,
                                 !.delete_btn = FALSE] : x \in after_signal }

\* search_items once the query has returned result
search_items_result(w, search_text, result) ==
    LET found == IF search_text # << >> /\ result = << >>
                 THEN show([w EXCEPT !.current_items = result],
                           "information: Search Result")
                 ELSE [w EXCEPT !.current_items = result]
        indexed == [found EXCEPT
                       !.current_index = IF result # << >> THEN 0 ELSE -1]
    IN  IF result # << >>
        THEN { update_navigation_buttons(display_current_item(indexed)) }
        ELSE { update_navigation_buttons(x) : x \in clear_fields(indexed) }

\* search_items: the slot of search_input.textChanged
search_items(w) ==
    LET search_text == Strip(w.search_input)
        db == Ensured(w, IF search_text # << >> THEN "search" ELSE "list")
    IN  IF ~db.ok
        THEN { show(db.w, "critical: Error searching items") }
        ELSE UNION { search_items_result(db.w, search_text, result) :
                        result \in IF search_text # << >>
                                   THEN search_menu_items(db.w.menu_items,
                                                          categories,
                                                          search_text)
                                   ELSE get_all_menu_items(db.w.menu_items,
                                                           categories) }

\* load_categories: the combo is filled again and shows its first entry
load_categories(w) ==
    LET db == Ensured(w, "categories")
    IN  IF ~db.ok THEN show(db.w, "critical: Error loading categories")
        ELSE [db.w EXCEPT !.category_combo = NoneId]

\* load_items: current_index is assigned only when the list is not empty
load_items(w) ==
    LET db == Ensured(w, "list")
    IN  IF ~db.ok
        THEN { show(db.w, "critical: Error loading items") }
        ELSE UNION {
                IF result # << >>
                THEN { update_navigation_buttons(display_current_item(
                          [db.w EXCEPT !.current_items = result,
                                       !.current_index = 0])) }
                ELSE { update_navigation_buttons(x) :
                          x \in clear_fields([db.w EXCEPT
                                                 !.current_items = result]) } :
                result \in get_all_menu_items(db.w.menu_items, categories) }

\* DatabaseManager.close()
close(w) ==
    IF w.connection = "connected"
    THEN [w EXCEPT !.connection = "disconnected", !.sessions = @ - 1]
    ELSE w

\* refresh_data that opens the new connection without closing the old one
refresh_data_NoClose(w) ==
    LET c == connect(w.connection, reachable)
    IN  IF c.raised # ""
        THEN { show(w, "critical: Error refreshing data") }
        ELSE LET loaded == load_categories(
                              [w EXCEPT !.connection = c.connection,
                                        !.sessions = @ + 1])
                 db == Ensured(loaded, "list")
             IN  IF ~db.ok
                 THEN { show(db.w, "critical: Error refreshing data") }
                 ELSE UNION {
                    IF result # << >>
                    THEN { show(update_navigation_buttons(
                                  display_current_item(
                                     [db.w EXCEPT !.current_items = result,
                                                  !.current_index = 0])),
                                "information: Success") }
                    ELSE { show(update_navigation_buttons(x),
                                "information: Success") :
                              x \in clear_fields(
                                     [db.w EXCEPT !.current_items = result,
                                                  !.current_index = -1]) } :
                    result \in get_all_menu_items(db.w.menu_items,
                                                  categories) }

\* refresh_data: the handle is closed, a new connection is opened, and the
\* categories and the items are loaded again
refresh_data(w) ==
    LET closed == close(w)
        c == connect(closed.connection, reachable)
    IN  IF c.raised # ""
        THEN { show(closed, "critical: Error refreshing data") }
        ELSE LET loaded == load_categories(
                              [closed EXCEPT !.connection = c.connection,
                                             !.sessions = @ + 1])
                 db == Ensured(loaded, "list")
             IN  IF ~db.ok
                 THEN { show(db.w, "critical: Error refreshing data") }
                 ELSE UNION {
                    IF result # << >>
                    THEN { show(update_navigation_buttons(
                                  display_current_item(
                                     [db.w EXCEPT !.current_items = result,
                                                  !.current_index = 0])),
                                "information: Success") }
                    ELSE { show(update_navigation_buttons(x),
                                "information: Success") :
                              x \in clear_fields(
                                     [db.w EXCEPT !.current_items = result,
                                                  !.current_index = -1]) } :
                    result \in get_all_menu_items(db.w.menu_items,
                                                  categories) }

\* validate_form: "" when the form is valid, else the error it shows.  The
\* description of the model has no surrounding blanks; price_input is the
\* number its text reads as, NoPrice when the text is not a number
validate_form(w) ==
    IF Strip(w.name_input) = << >>
    THEN "critical: Validation Error: Name is required"
    ELSE IF w.description_input = ""
    THEN "critical: Validation Error: Description is required"
    ELSE IF w.price_input = NoPrice \/ w.price_input <= 0
    THEN "critical: Validation Error: Price must be a positive number"
    ELSE IF w.category_combo = NoneId
    THEN "critical: Validation Error: Category must be selected"
    ELSE IF ~Truthy(w.current_image)
    THEN "critical: Validation Error: An image is required"
    ELSE ""

\* get_form_data: float(price_input.text()) raises ValueError when the text
\* is not a number
get_form_data(w) ==
    [raised |-> IF w.price_input = NoPrice THEN "ValueError" ELSE "",
     item |-> MenuItem(w.id_input, Strip(w.name_input), w.description_input,
                       w.price_input, w.category_combo, w.current_image,
                       w.current_image_name,
                       IF w.category_combo \in DOMAIN categories
                       THEN categories[w.category_combo]
                       ELSE SelectACategory)]

insert_item(w) ==
    LET invalid == validate_form(w)
        item == get_form_data(w).item
        out == create_menu_item(w.menu_items, categories, w.auto_increment,
                                item)
        db == Ensured(w, "create")
    IN  IF invalid # "" THEN { show(w, invalid) }
        ELSE IF TruthyInt(item.id)
        THEN { show(w, "critical: Error: Cannot insert") }
        ELSE IF out.raised = "ValueError"
        THEN { show(w, "critical: Validation Error") }
        ELSE IF ~db.ok \/ out.raised # ""
        THEN { show(db.w, "critical: Error creating item") }
        ELSE load_items(
                [show([db.w EXCEPT !.menu_items = out.menu_items,
                                   !.auto_increment = @ + 1],
                      "information: Success")
                 EXCEPT !.id_input = out.ret])

update_item(w) ==
    LET invalid == validate_form(w)
        item == get_form_data(w).item
        out == update_menu_item(w.menu_items, categories, item)
        db == Ensured(w, "update")
    IN  IF invalid # "" THEN { show(w, invalid) }
        ELSE IF w.id_input = NoneId
        THEN { show(w, "critical: Error: Cannot update") }
        ELSE IF out.raised = "ValueError"
        THEN { show(w, "critical: Error updating item") }
        ELSE IF ~db.ok \/ out.raised # ""
        THEN { show(db.w, "critical: Error updating item") }
        ELSE IF out.ret
        THEN load_items(show([db.w EXCEPT !.menu_items = out.menu_items],
                             "information: Success"))
        ELSE { show(db.w, "information: No Changes") }

\* delete_item; reply is the answer to "Confirm Deletion"
delete_item(w, reply) ==
    LET out == delete_menu_item(w.menu_items, w.id_input)
        db == Ensured(w, "delete")
    IN  IF w.id_input = NoneId THEN { w }
        ELSE IF reply # "Yes" THEN { show(w, "question: Confirm Deletion") }
        ELSE IF out.raised = "ValueError"
        THEN { show(show(w, "question: Confirm Deletion"),
                    "critical: Error deleting item") }
        ELSE IF ~db.ok
        THEN { show(show(db.w, "question: Confirm Deletion"),
                    "critical: Error deleting item") }
        ELSE load_items(
                show(show([db.w EXCEPT !.menu_items = out.menu_items],
                          "question: Confirm Deletion"),
                     "information: Success"))

show_previous_item(w) ==
    IF w.current_index > 0
    THEN update_navigation_buttons(display_current_item(
            [w EXCEPT !.current_index = @ - 1]))
    ELSE w

show_next_item(w) ==
    IF w.current_index < Len(w.current_items) - 1
    THEN update_navigation_buttons(display_current_item(
            [w EXCEPT !.current_index = @ + 1]))
    ELSE w

\* what the environment of print_item does: "ok", generate_report raises, or
\* os.unlink raises
PrintOutcomes == {"ok", "report_raises", "unlink_raises"}

\* print_item: the temporary file is made before the report is generated and
\* is unlinked after the preview dialog has been closed
print_item(w, outcome) ==
    IF w.id_input = NoneId
    THEN show(w, "critical: Error: No item selected to print")
    ELSE LET pdf_path == 1 + Cardinality(w.tmp_files)
             made == [w EXCEPT !.tmp_files = @ \cup {pdf_path},
                               !.pdf_path = pdf_path]
         IN  IF get_form_data(made).raised # "" \/ outcome = "report_raises"
             THEN show(made, "critical: Error generating PDF")
             ELSE IF outcome = "unlink_raises" THEN made
             ELSE [made EXCEPT !.tmp_files = @ \ {pdf_path}]

\* MainWindow.__init__ over a store holding rows: DatabaseManager(config_path)
\* connects, then load_categories() and load_items()
MainWindow_init(rows) ==
    load_items(load_categories(
        [menu_items |-> rows, auto_increment |-> Cardinality(DOMAIN rows) + 1,
         connection |-> "connected", sessions |-> 1,
         current_items |-> << >>, current_index |-> -1,
         id_input |-> NoneId, name_input |-> << >>,
         description_input |-> "", price_input |-> NoPrice,
         category_combo |-> NoneId, search_input |-> << >>,
         current_image |-> None, current_image_name |-> None,
         new_btn |-> TRUE, save_btn |-> TRUE, delete_btn |-> TRUE,
         prev_btn |-> TRUE, next_btn |-> TRUE, tmp_files |-> {},
         dialogs |-> << >>, pdf_path |-> 0]))

\* the stores the application is started on
FormStores == { << >>, 1 :> RowOf(Tea) }

\* what the user types and picks
FormNames == {TeaName, Latte}
FormPrices == {NoPrice, 3000}
FormSearches == {TeaName, Latte, << " " >>, << >>}
MaxTmpFiles == 1

InitForm ==
    /\ categories = Categories
    /\ reachable = TRUE
    /\ call = NoCall
    /\ e2e = 0
    /\ NoRace
    /\ \E rows \in FormStores :
          \E w \in MainWindow_init(rows) : IsWindow(w, "__init__", << >>)

\* the window is open
Open == shown.handler # "closeEvent"

\* the user edits the search box
SearchTextChanged ==
    \E text \in FormSearches :
        /\ Open
        /\ text # search_input
        /\ \E w \in search_items([Window EXCEPT !.search_input = text]) :
              Becomes(w, "search_items", text)

NewClicked ==
    /\ Open
    /\ new_btn
    /\ auto_increment <= MaxId
    /\ Cardinality(DOMAIN menu_items) < MaxRows
    /\ \E w \in insert_item(Window) : Becomes(w, "insert_item", << >>)

SaveClicked ==
    /\ Open
    /\ save_btn
    /\ \E w \in update_item(Window) : Becomes(w, "update_item", << >>)

DeleteClicked ==
    \E reply \in {"Yes", "No"} :
        /\ Open
        /\ delete_btn
        /\ \E w \in delete_item(Window, reply) :
              Becomes(w, "delete_item", << >>)

PrevClicked ==
    /\ Open
    /\ prev_btn
    /\ Becomes(show_previous_item(Window), "show_previous_item", << >>)

NextClicked ==
    /\ Open
    /\ next_btn
    /\ Becomes(show_next_item(Window), "show_next_item", << >>)

ClearClicked ==
    /\ Open
    /\ \E w \in clear_fields(Window) : Becomes(w, "clear_fields", << >>)

RefreshClicked ==
    /\ Open
    /\ \E w \in refresh_data(Window) : Becomes(w, "refresh_data", << >>)

PrintClicked ==
    \E outcome \in PrintOutcomes :
        /\ Open
        /\ Cardinality(tmp_files) < MaxTmpFiles
        /\ Becomes(print_item(Window, outcome), "print_item", << >>)

\* the user closes the window: closeEvent calls self.db.close()
CloseEvent ==
    /\ Open
    /\ Becomes(close(Window), "closeEvent", << >>)

\* the user types a name or a price, or picks the category and the image of
\* Tea (select_image) and types its description
EditName ==
    \E text \in FormNames :
        /\ Open
        /\ text # name_input
        /\ Becomes([Window EXCEPT !.name_input = text], "edit", << >>)

EditPrice ==
    \E price \in FormPrices :
        /\ Open
        /\ price # price_input
        /\ Becomes([Window EXCEPT !.price_input = price], "edit", << >>)

EditRest ==
    /\ Open
    /\ <<description_input, category_combo, current_image>>
           # <<Tea.description, Tea.category_id, Tea.image>>
    /\ Becomes([Window EXCEPT !.description_input = Tea.description,
                              !.category_combo = Tea.category_id,
                              !.current_image = Tea.image,
                              !.current_image_name = Tea.image_name],
               "edit", << >>)

NextForm ==
    \/ SearchTextChanged
    \/ NewClicked
    \/ SaveClicked
    \/ DeleteClicked
    \/ PrevClicked
    \/ NextClicked
    \/ ClearClicked
    \/ RefreshClicked
    \/ PrintClicked
    \/ CloseEvent
    \/ EditName
    \/ EditPrice
    \/ EditRest

SpecForm == InitForm /\ [][NextForm]_vars

----------------------------------------------------------------------------
(* Properties of the form *)

\* C27: after any sequence of handlers current_index is -1 when
\* current_items is empty, and otherwise 0 <= current_index <
\* len(current_items)
C27_AsStated ==
    IF current_items = << >>
    THEN current_index = -1
    ELSE 0 <= current_index /\ current_index < Len(current_items)

\* what holds of every state: current_index is at least -1 and, when
\* current_items is not empty, a position of it
C27_IndexInList ==
    /\ current_index >= -1
    /\ current_items # << >>
       => 0 <= current_index /\ current_index < Len(current_items)

\* the form shows no item: every field is cleared
FieldsCleared ==
    /\ id_input = NoneId
    /\ name_input = << >>
    /\ description_input = ""
    /\ price_input = NoPrice
    /\ category_combo = NoneId
    /\ current_image = None
    /\ current_image_name = None

\* the last handler was search_items for a term that is not blank, and the
\* query returned no rows
SearchFoundNothing ==
    /\ shown.handler = "search_items"
    /\ Strip(shown.text) # << >>
    /\ shown.dialogs # << >>
    /\ shown.dialogs[1] = "information: Search Result"

\* C28: when the search box changes to a term for which search_menu_items
\* returns no rows, the form ends the event with current_items empty,
\* current_index -1, all fields cleared, New enabled and Save and Delete
\* disabled
C28_AsStated ==
    SearchFoundNothing
    => /\ current_items = << >>
       /\ current_index = -1
       /\ FieldsCleared
       /\ new_btn
       /\ ~save_btn
       /\ ~delete_btn

\* C29: after print_item returns, whether the report and the preview
\* succeeded or an exception was shown as an error, the temporary file it
\* created no longer exists
C29_AsStated ==
    (shown.handler = "print_item" /\ shown.pdf_path # 0)
    => shown.pdf_path \notin tmp_files


----------------------------------------------------------------------------
(* The sessions of the form's DatabaseManager: the handlers that call its  *)
(* public operations, refresh_data and closeEvent, while the connection    *)
(* drops and the store goes down and comes back                            *)

NextHandles ==
    \/ SearchTextChanged
    \/ NewClicked
    \/ SaveClicked
    \/ DeleteClicked
    \/ ClearClicked
    \/ RefreshClicked
    \/ CloseEvent
    \/ EditName
    \/ EditPrice
    \/ EditRest
    \/ DropConnection
    \/ StoreDown
    \/ StoreUp

SpecHandles == InitForm /\ [][NextHandles]_vars

\* C22: a DatabaseManager holds at most one live connection at any time, and
\* its handle is connected exactly when it holds one
C22_OneConnection ==
    /\ sessions \in {0, 1}
    /\ sessions = 1 <=> connection = "connected"

\* refresh_data has replaced a live connection by a new one
C22_Witness ==
    /\ shown.handler = "refresh_data"
    /\ shown.dialogs = << "information: Success" >>
    /\ sessions = 1
    /\ connection = "connected"

----------------------------------------------------------------------------
(* Two DatabaseManager instances update the same row.  Each has its own    *)
(* connection; the store runs their statements one at a time.  A           *)
(* connection does not autocommit: its first SELECT opens a transaction    *)
(* that reads the rows as they were then, its UPDATE locks the row until   *)
(* it commits, and an UPDATE of a locked row waits.                        *)

MaxCalls == 2    \* calls of update_menu_item by one manager

\* the row both managers update
RaceId == 1

\* the items the managers pass: a new price with and without image bytes, a
\* new image, and the row as it is stored at first
RaceItems ==
    {[Tea EXCEPT !.id = RaceId, !.price = 3000],
     [TeaUpdate EXCEPT !.id = RaceId],
     [Tea EXCEPT !.id = RaceId, !.image = IMG2, !.image_name = "new.png"],
     [Tea EXCEPT !.id = RaceId]}

\* the row at first: Tea, with its image or, as a row that was not stored
\* through create_menu_item can be, without one
InitRace ==
    /\ menu_items \in {RaceId :> RowOf(Tea),
                       RaceId :> [RowOf(Tea) EXCEPT !.image = None,
                                                    !.image_name = None]}
    /\ categories = Categories
    /\ auto_increment = RaceId + 1
    /\ connection = "connected"
    /\ reachable = TRUE
    /\ sessions = 1
    /\ call = NoCall
    /\ e2e = 0
    /\ NoForm
    /\ NoRace

\* what the steps of the managers leave alone
RaceFrame ==
    UNCHANGED <<categories, auto_increment, connection, reachable, sessions,
                call, e2e, formVars>>

\* the rows a SELECT of manager m reads: those of its open transaction, or
\* the committed ones when the SELECT opens the transaction
Snapshot(m) ==
    IF local[m].in_transaction THEN local[m].snapshot ELSE menu_items

\* the row is not locked by another manager
CanLock(m, id) == IF id \in DOMAIN row_lock THEN row_lock[id] = m ELSE TRUE

\* manager m is called: update_menu_item(item) passes the check of item.id
UpdateBegins(m) ==
    \E item \in RaceItems :
        /\ pc[m] \in {"idle", "done"}
        /\ local[m].calls < MaxCalls
        /\ TruthyInt(item.id)
        /\ pc' = [pc EXCEPT ![m] = "has_changes"]
        /\ local' = [local EXCEPT ![m].item = item, ![m].raised = "",
                                  ![m].ret = FALSE, ![m].seen = << >>,
                                  ![m].calls = @ + 1]
        /\ UNCHANGED <<menu_items, row_lock, committed>>
        /\ RaceFrame

\* self.has_changes(item.id, item): the change-detection read
ChangeDetectionRead(m) ==
    \E rows \in {Snapshot(m)} :
    \E hc \in {has_changes(rows, categories, local[m].item.id, local[m].item)} :
        /\ pc[m] = "has_changes"
        /\ pc' = [pc EXCEPT ![m] =
                     IF ~hc.ret THEN "done"
                     ELSE IF ~Truthy(hc.new_item.image) THEN "read"
                     ELSE "update"]
        /\ local' = [local EXCEPT ![m].item = hc.new_item,
                                  ![m].in_transaction = TRUE,
                                  ![m].snapshot = rows,
                                  ![m].seen = rows,
                                  ![m].ret = FALSE]
        /\ UNCHANGED <<menu_items, row_lock, committed>>
        /\ RaceFrame

\* current_item = self.read_menu_item(item.id): the carry-forward read
CarryForwardRead(m) ==
    \E current_item \in {read_menu_item(Snapshot(m), categories,
                                        local[m].item.id)} :
        /\ pc[m] = "read"
        /\ pc' = [pc EXCEPT ![m] = "update"]
        /\ local' = [local EXCEPT ![m].item =
                        IF current_item # << >>
                        THEN [@ EXCEPT !.image = current_item[1].image,
                                       !.image_name = current_item[1].image_name]
                        ELSE @]
        /\ UNCHANGED <<menu_items, row_lock, committed>>
        /\ RaceFrame

\* cursor.execute(query, values): the UPDATE runs on the committed row once
\* no other manager holds its lock; an Error is rolled back and raised as
\* the generic Exception
ExecuteUpdate(m) ==
    \E upd \in {SqlUpdate(menu_items, categories, local[m].item)} :
        /\ pc[m] = "update"
        /\ CanLock(m, local[m].item.id)
        /\ IF upd.error
           THEN /\ pc' = [pc EXCEPT ![m] = "done"]
                /\ local' = [local EXCEPT ![m].raised = "Exception",
                                          ![m].in_transaction = FALSE,
                                          ![m].snapshot = << >>]
                /\ UNCHANGED row_lock
           ELSE /\ pc' = [pc EXCEPT ![m] = "commit"]
                /\ local' = [local EXCEPT
                                ![m].in_transaction = TRUE,
                                ![m].snapshot = Snapshot(m),
                                ![m].pending =
                                    IF local[m].item.id \in DOMAIN menu_items
                                    THEN << upd.menu_items[local[m].item.id] >>
                                    ELSE << >>,
                                ![m].rowcount = upd.rowcount]
                /\ row_lock' =
                       IF local[m].item.id \in DOMAIN menu_items
                       THEN [id \in DOMAIN row_lock \cup {local[m].item.id} |->
                                IF id = local[m].item.id THEN m
                                ELSE row_lock[id]]
                       ELSE row_lock
        /\ UNCHANGED <<menu_items, committed>>
        /\ RaceFrame

\* self.connection.commit(); return cursor.rowcount > 0
Commit(m) ==
    /\ pc[m] = "commit"
    /\ pc' = [pc EXCEPT ![m] = "done"]
    /\ menu_items' =
           IF local[m].pending # << >>
           THEN [menu_items EXCEPT ![local[m].item.id] = local[m].pending[1]]
           ELSE menu_items
    /\ row_lock' = [id \in {i \in DOMAIN row_lock : row_lock[i] # m} |->
                       row_lock[id]]
    /\ committed' = Append(committed, [manager |-> m, item |-> local[m].item,
                                       seen |-> local[m].seen])
    /\ local' = [local EXCEPT ![m].ret = local[m].rowcount > 0,
                              ![m].in_transaction = FALSE,
                              ![m].snapshot = << >>,
                              ![m].pending = << >>]
    /\ RaceFrame

UpdateBeginsCall == \E m \in Managers : UpdateBegins(m)
ChangeDetectionReadStep == \E m \in Managers : ChangeDetectionRead(m)
CarryForwardReadStep == \E m \in Managers : CarryForwardRead(m)
ExecuteUpdateStep == \E m \in Managers : ExecuteUpdate(m)
CommitStep == \E m \in Managers : Commit(m)

NextRace ==
    \/ UpdateBeginsCall
    \/ ChangeDetectionReadStep
    \/ CarryForwardReadStep
    \/ ExecuteUpdateStep
    \/ CommitStep

SpecRace == InitRace /\ [][NextRace]_vars

\* C25: two managers that update the same row with interleaved steps both
\* complete without an error: no call raises, and a manager that waits for
\* the row waits for one that is about to commit; the stored row holds the
\* values written by the update that committed last
C25_LastWriteWins ==
    /\ \A m \in Managers : local[m].raised = ""
    /\ \A id \in DOMAIN row_lock : pc[row_lock[id]] = "commit"
    /\ committed # << >>
       => menu_items[RaceId] = RowOf(committed[Len(committed)].item)

\* both managers have read the row as it was at first, then one has
\* committed a new image and after it the other a new price: the row holds
\* the second update and the first image is lost
C25_Witness ==
    /\ \A m \in Managers : pc[m] = "done" /\ local[m].raised = ""
    /\ Len(committed) = 2
    /\ committed[1].manager # committed[2].manager
    /\ committed[1].seen = committed[2].seen
    /\ committed[1].item.image = IMG2
    /\ committed[2].item.price = 3000
    /\ menu_items[RaceId].price = 3000
    /\ menu_items[RaceId].image = Tea.image

====
